---- MODULE Spec2Model ----
(***************************************************************************)
(* Model of the CBS server billing program.                                *)
(*                                                                         *)
(*  - dateutils.py / policy.py : get_end_of_period, get_days_in_range      *)
(*  - billing.py               : StorageRecord, PowerUsersRecord (the      *)
(*                               spreadsheet-backed records the policy     *)
(*                               of policy.py is written against)          *)
(*  - policy.py                : BillingPolicy                             *)
(*  - spreadsheet/user.py      : Update, UpdateUser, AccountRequest,       *)
(*                               AccountUpdate, enumerate_all_users        *)
(*  - spreadsheet/record.py    : check_all_power_users                     *)
(*                                                                         *)
(* Conventions.  A datetime.date is the number of days since the first day *)
(* of FirstYear.  Form timestamps are kept at day resolution (every use    *)
(* the code makes of a timestamp other than sorting goes through .date()). *)
(* None / NaT / NaN is NaT for dates and numbers and "None" for strings    *)
(* and optional booleans (which are the strings "True" and "False").       *)
(* Money is in cents, so that "* 0.25" is exact.                           *)
(***************************************************************************)
EXTENDS Integers, Sequences, FiniteSets, TLC

VARIABLES
    storage_df,             \* billing.py StorageRecord.storage_df (PI form rows)
    storage_update_df,      \* billing.py StorageRecord.storage_update_df
    power_user_df,          \* billing.py PowerUsersRecord.power_user_df
    power_user_update_df,   \* billing.py PowerUsersRecord.power_user_update_df
    call,                   \* the last call made and what it returned
    users,                  \* user.py: the fold's working set (existing_users)
    projects,               \* record.py: the projects handed to the checks
    clock,                  \* user.py:304 date of the last change handled
    handled,                \* number of changes handled so far
    outcome,                \* the exception that ended the run, None while it runs
    records,                \* main.py:71 the records process_everything works on
    out_dir                 \* main.py:58 the files written to the output directory

vars == <<storage_df, storage_update_df, power_user_df, power_user_update_df,
          call, users, projects, clock, handled, outcome, records, out_dir>>

forms == <<storage_df, storage_update_df, power_user_df, power_user_update_df>>
fold == <<users, projects, clock, handled, outcome, records, out_dir>>

--------------------------------------------------------------------------
(* Calendar *)

FirstYear == 2019
LastYear == 2022
Years == FirstYear..LastYear

NaT == -1
None == "None"

IsLeap(y) == (y % 4 = 0) /\ ((y % 100 # 0) \/ (y % 400 = 0))

\* calendar.monthrange(year, month)[-1]
monthrange(year, month) ==
    IF month = 2 THEN (IF IsLeap(year) THEN 29 ELSE 28)
    ELSE IF month \in {4, 6, 9, 11} THEN 30 ELSE 31

RECURSIVE DaysBeforeYear(_)
DaysBeforeYear(y) ==
    IF y <= FirstYear THEN 0
    ELSE DaysBeforeYear(y - 1) + (IF IsLeap(y - 1) THEN 366 ELSE 365)

RECURSIVE DaysBeforeMonth(_, _)
DaysBeforeMonth(y, m) ==
    IF m <= 1 THEN 0 ELSE DaysBeforeMonth(y, m - 1) + monthrange(y, m - 1)

\* datetime.date(year, month, day)
date(y, m, d) == DaysBeforeYear(y) + DaysBeforeMonth(y, m) + (d - 1)

MaxOrdinal == date(LastYear, 12, 31)

\* date.year and date.month of every day of the calendar
YearMonth ==
    [n \in 0..MaxOrdinal |->
        CHOOSE ym \in Years \X (1..12) :
            /\ date(ym[1], ym[2], 1) <= n
            /\ n <= date(ym[1], ym[2], monthrange(ym[1], ym[2]))]

YearOf(n) == YearMonth[n][1]
MonthOf(n) == YearMonth[n][2]

\* dateutils.get_end_of_period / policy.get_end_of_period
get_end_of_period(start_year, start_month, num_months) ==
    LET carried == num_months >= 12
        year0 == IF carried THEN start_year + (num_months \div 12) ELSE start_year
        n == IF carried THEN num_months % 12 ELSE num_months
        ym == IF n = 0 /\ start_month = 1 THEN <<year0 - 1, 12>>
              ELSE IF start_month <= 13 - n THEN <<start_year, start_month + (n - 1)>>
              ELSE <<start_year + 1, start_month - (13 - n)>>
    IN date(ym[1], ym[2], monthrange(ym[1], ym[2]))

\* dateutils.get_days_in_range: the inclusive list of days, as a set
get_days_in_range(start_date, end_date) == start_date..end_date

--------------------------------------------------------------------------
(* billing.py: StorageRecord *)

RECURSIVE SumSeq(_)
SumSeq(s) == IF s = <<>> THEN 0 ELSE Head(s) + SumSeq(Tail(s))

\* billing.py:410-416  storage_df.loc[last_name == pi, "start_timestamp"].iloc[0].date()
get_storage_start(storage_record, pi_last_name) ==
    LET rows == SelectSeq(storage_record.storage_df,
                          LAMBDA r : r.last_name = pi_last_name)
    IN rows[1].start_timestamp

\* billing.py:431-438  the first closure row of the PI, None when there is none
get_pi_account_close_date(storage_record, pi_last_name) ==
    LET closure_row == SelectSeq(storage_record.storage_update_df,
                          LAMBDA r : r.last_name = pi_last_name /\ r.account_closed)
    IN IF Len(closure_row) = 0 THEN NaT ELSE closure_row[1].timestamp

\* billing.py:455-471  (DataFrame.sum skips NaN)
get_storage_amount(storage_record, pi_last_name, d) ==
    LET pi_storage == SelectSeq(storage_record.storage_df,
                          LAMBDA r : r.last_name = pi_last_name /\ r.start_timestamp <= d)
        pi_storage_updates == SelectSeq(storage_record.storage_update_df,
                          LAMBDA r : r.last_name = pi_last_name /\ r.timestamp <= d)
        new_storage == [i \in 1..Len(pi_storage_updates) |->
                          IF pi_storage_updates[i].new_storage = NaT THEN 0
                          ELSE pi_storage_updates[i].new_storage]
    IN (IF Len(pi_storage) > 0 THEN pi_storage[1].storage ELSE 0)
       + (IF Len(pi_storage_updates) > 0 THEN SumSeq(new_storage) ELSE 0)

--------------------------------------------------------------------------
(* policy.py: BillingPolicy (storage) *)

STORAGE_PRICE == 50
FIRST_POWER_USER_PRICE == 1000
ADDITIONAL_POWER_USER_PRICE == 500
PERIOD_LENGTH == 3
MIN_BILL_USAGE == 2

\* x * 0.25 dollars, in cents
Quarter(x) == (x * 100) \div 4

Min(a, b) == IF a <= b THEN a ELSE b

\* is_billable_pi with an account closed on the cutoff date still billed
is_billable_pi_closed_on_cutoff(storage_record, pi_last_name, start_date) ==
    LET end_date == get_end_of_period(YearOf(start_date), MonthOf(start_date),
                                      PERIOD_LENGTH)
        cutoff_date == get_end_of_period(YearOf(start_date), MonthOf(start_date),
                                         MIN_BILL_USAGE)
        account_close_date == get_pi_account_close_date(storage_record, pi_last_name)
    IN IF get_storage_start(storage_record, pi_last_name) > end_date THEN FALSE
       ELSE IF account_close_date = NaT \/ account_close_date >= cutoff_date THEN TRUE
       ELSE FALSE

\* policy.py:57-70
is_billable_pi(storage_record, pi_last_name, start_date) ==
    LET end_date == get_end_of_period(YearOf(start_date), MonthOf(start_date),
                                      PERIOD_LENGTH)
        cutoff_date == get_end_of_period(YearOf(start_date), MonthOf(start_date),
                                         MIN_BILL_USAGE)
        account_close_date == get_pi_account_close_date(storage_record, pi_last_name)
    IN IF get_storage_start(storage_record, pi_last_name) > end_date THEN FALSE
       ELSE IF account_close_date = NaT \/ account_close_date > cutoff_date THEN TRUE
       ELSE FALSE

\* get_quarterly_storage_amount sampling the second cutoff only
get_quarterly_storage_amount_second_cutoff(storage_record, pi_last_name, start_date) ==
    LET cutoff_date == get_end_of_period(YearOf(start_date), MonthOf(start_date),
                                         PERIOD_LENGTH - MIN_BILL_USAGE)
    IN IF get_storage_start(storage_record, pi_last_name) > cutoff_date THEN 0
       ELSE get_storage_amount(storage_record, pi_last_name,
                get_end_of_period(YearOf(start_date), MonthOf(start_date),
                                  MIN_BILL_USAGE))

\* policy.py:94-109
get_quarterly_storage_amount(storage_record, pi_last_name, start_date) ==
    LET cutoff_date == get_end_of_period(YearOf(start_date), MonthOf(start_date),
                                         PERIOD_LENGTH - MIN_BILL_USAGE)
    IN IF get_storage_start(storage_record, pi_last_name) > cutoff_date THEN 0
       ELSE Min(get_storage_amount(storage_record, pi_last_name, cutoff_date),
                get_storage_amount(storage_record, pi_last_name,
                    get_end_of_period(YearOf(start_date), MonthOf(start_date),
                                      MIN_BILL_USAGE)))

\* get_quarterly_storage_price charging the whole annual rate
get_quarterly_storage_price_annual(storage_record, pi_last_name, start_date) ==
    get_quarterly_storage_amount(storage_record, pi_last_name, start_date)
    * STORAGE_PRICE * 100

\* policy.py:133-137
get_quarterly_storage_price(storage_record, pi_last_name, start_date) ==
    Quarter(get_quarterly_storage_amount(storage_record, pi_last_name, start_date)
            * STORAGE_PRICE)

--------------------------------------------------------------------------
(* billing.py: PowerUsersRecord *)

\* billing.py:58-70  a user row rewritten as a new term
gen_new_term_from_row(orig_row, update) ==
    LET r1 == [orig_row EXCEPT !.start_timestamp = update.timestamp]
        r2 == IF update.new_end_timestamp # NaT
              THEN [r1 EXCEPT !.end_timestamp = update.new_end_timestamp]
              ELSE r1
    IN IF update.new_power_user # None
       THEN [r2 EXCEPT !.power_user = (update.new_power_user = "True")]
       ELSE r2

\* billing.py:73-87  a user row with its current term updated
update_term_from_row(orig_row, update) ==
    LET r1 == IF update.new_end_timestamp # NaT
              THEN [orig_row EXCEPT !.end_timestamp = update.new_end_timestamp]
              ELSE orig_row
    IN IF update.new_power_user = None THEN r1
       ELSE IF update.new_power_user = "True"
            THEN (IF ~r1.power_user
                  THEN [r1 EXCEPT !.power_user = TRUE,
                                  !.start_timestamp = update.timestamp]
                  ELSE r1)
            ELSE (IF r1.power_user
                  THEN [r1 EXCEPT !.end_timestamp = update.timestamp]
                  ELSE r1)

\* DataFrame.sort_values(by=["timestamp"]), rows of equal timestamp in frame order
RECURSIVE InsertByTimestamp(_, _)
InsertByTimestamp(row, sorted) ==
    IF sorted = <<>> THEN <<row>>
    ELSE IF Head(sorted).timestamp <= row.timestamp
         THEN <<Head(sorted)>> \o InsertByTimestamp(row, Tail(sorted))
         ELSE <<row>> \o sorted

RECURSIVE SortByTimestamp(_)
SortByTimestamp(rows) ==
    IF rows = <<>> THEN <<>>
    ELSE InsertByTimestamp(rows[Len(rows)], SortByTimestamp(SubSeq(rows, 1, Len(rows) - 1)))

\* billing.py:603-609  the updates applied in turn to the user's latest row
\* (a comparison with an end of NaT is false: the term is updated)
RECURSIVE ApplyUpdates(_, _)
ApplyUpdates(orig_row, updates) ==
    IF updates = <<>> THEN orig_row
    ELSE LET update == Head(updates)
             next == IF orig_row.end_timestamp # NaT
                        /\ update.timestamp > orig_row.end_timestamp
                     THEN gen_new_term_from_row(orig_row, update)
                     ELSE update_term_from_row(orig_row, update)
         IN ApplyUpdates(next, Tail(updates))

\* Series.idxmax(): the first row holding the latest start_timestamp
LatestRow(rows) ==
    LET i == CHOOSE i \in 1..Len(rows) :
                 /\ \A j \in 1..Len(rows) : rows[j].start_timestamp <= rows[i].start_timestamp
                 /\ \A j \in 1..(i - 1) : rows[j].start_timestamp < rows[i].start_timestamp
    IN rows[i]

NotPowerUser == <<FALSE, NaT, NaT>>

\* billing.py:576-621  <<is a power user, term start, term end>>
describe_user(power_users_record, last_name, period_start, period_end) ==
    LET rows == SelectSeq(power_users_record.power_user_df,
                    LAMBDA r : r.last_name = last_name /\ r.start_timestamp <= period_end)
    IN IF Len(rows) = 0 THEN NotPowerUser
       ELSE LET orig_row == LatestRow(rows)
                relevant_updates == SelectSeq(power_users_record.power_user_update_df,
                    LAMBDA u : /\ u.last_name = last_name
                               /\ u.timestamp <= period_end
                               /\ (u.new_end_timestamp # NaT \/ u.new_power_user # None)
                               /\ u.timestamp >= orig_row.start_timestamp)
                row == ApplyUpdates(orig_row, SortByTimestamp(relevant_updates))
            IN IF ~(row.end_timestamp = NaT \/ row.end_timestamp >= period_start)
               THEN NotPowerUser
               ELSE IF row.power_user
                    THEN <<TRUE, row.start_timestamp, row.end_timestamp>>
                    ELSE NotPowerUser

\* sorted(out_list, key=lambda x: x[1]): stable, by term start
RECURSIVE InsertByStart(_, _)
InsertByStart(x, sorted) ==
    IF sorted = <<>> THEN <<x>>
    ELSE IF Head(sorted)[2] <= x[2]
         THEN <<Head(sorted)>> \o InsertByStart(x, Tail(sorted))
         ELSE <<x>> \o sorted

RECURSIVE SortByStart(_)
SortByStart(out_list) ==
    IF out_list = <<>> THEN <<>>
    ELSE InsertByStart(out_list[Len(out_list)],
                       SortByStart(SubSeq(out_list, 1, Len(out_list) - 1)))

\* billing.py:549-553  one <<name, start, end>> per row of out_df whose user is
\* described as a power user
RECURSIVE OutList(_, _, _, _)
OutList(power_users_record, out_df, start_date, end_date) ==
    IF out_df = <<>> THEN <<>>
    ELSE LET name == Head(out_df).last_name
             term == describe_user(power_users_record, name, start_date, end_date)
             rest == OutList(power_users_record, Tail(out_df), start_date, end_date)
         IN IF term[1] THEN <<<<name, term[2], term[3]>>>> \o rest ELSE rest

\* enumerate_power_users handing the users over in the order of the frame
enumerate_power_users_unsorted(power_users_record, pi_last_name, start_date, end_date) ==
    LET out_df == SelectSeq(power_users_record.power_user_df,
                    LAMBDA r : r.pi_last_name = pi_last_name
                               /\ r.start_timestamp <= end_date)
    IN OutList(power_users_record, out_df, start_date, end_date)

\* billing.py:541-555
enumerate_power_users(power_users_record, pi_last_name, start_date, end_date) ==
    LET out_df == SelectSeq(power_users_record.power_user_df,
                    LAMBDA r : r.pi_last_name = pi_last_name
                               /\ r.start_timestamp <= end_date)
    IN SortByStart(OutList(power_users_record, out_df, start_date, end_date))

--------------------------------------------------------------------------
(* policy.py: BillingPolicy (power users) *)

\* the loop never noting that the first price was applied
RECURSIVE PriceRecord_first_price_never_noted(_, _, _)
PriceRecord_first_price_never_noted(power_users, start_date, first_price_applied) ==
    IF power_users = <<>> THEN <<>>
    ELSE LET user_start == Head(power_users)[2]
             user_end == Head(power_users)[3]
             zero == \/ /\ user_end # NaT
                        /\ user_end <= get_end_of_period(YearOf(start_date),
                                           MonthOf(start_date), MIN_BILL_USAGE)
                     \/ user_start > get_end_of_period(YearOf(start_date),
                                           MonthOf(start_date),
                                           PERIOD_LENGTH - MIN_BILL_USAGE)
             price == IF zero THEN 0 ELSE Quarter(FIRST_POWER_USER_PRICE)
         IN <<<<Head(power_users)[1], user_start, user_end, price>>>>
            \o PriceRecord_first_price_never_noted(Tail(power_users), start_date, FALSE)

\* the loop without the branch for the users who started after the first cutoff
RECURSIVE PriceRecord_late_start_billed(_, _, _)
PriceRecord_late_start_billed(power_users, start_date, first_price_applied) ==
    IF power_users = <<>> THEN <<>>
    ELSE LET user_start == Head(power_users)[2]
             user_end == Head(power_users)[3]
             zero == /\ user_end # NaT
                     /\ user_end <= get_end_of_period(YearOf(start_date),
                                        MonthOf(start_date), MIN_BILL_USAGE)
             price == IF zero THEN 0
                      ELSE IF ~first_price_applied THEN Quarter(FIRST_POWER_USER_PRICE)
                      ELSE Quarter(ADDITIONAL_POWER_USER_PRICE)
         IN <<<<Head(power_users)[1], user_start, user_end, price>>>>
            \o PriceRecord_late_start_billed(Tail(power_users), start_date,
                                             first_price_applied \/ ~zero)

\* policy.py:169-189  the loop over the power users, first_price_applied carried along
RECURSIVE PriceRecord(_, _, _)
PriceRecord(power_users, start_date, first_price_applied) ==
    IF power_users = <<>> THEN <<>>
    ELSE LET name == Head(power_users)[1]
             user_start == Head(power_users)[2]
             user_end == Head(power_users)[3]
             zero == \/ /\ user_end # NaT
                        /\ user_end <= get_end_of_period(YearOf(start_date),
                                           MonthOf(start_date), MIN_BILL_USAGE)
                     \/ user_start > get_end_of_period(YearOf(start_date),
                                           MonthOf(start_date),
                                           PERIOD_LENGTH - MIN_BILL_USAGE)
             price == IF zero THEN 0
                      ELSE IF ~first_price_applied THEN Quarter(FIRST_POWER_USER_PRICE)
                      ELSE Quarter(ADDITIONAL_POWER_USER_PRICE)
         IN <<<<name, user_start, user_end, price>>>>
            \o PriceRecord(Tail(power_users), start_date, first_price_applied \/ ~zero)

\* policy.py:162-189
enumerate_quarterly_power_user_prices(power_users_record, pi_last_name, start_date) ==
    LET end_date == get_end_of_period(YearOf(start_date), MonthOf(start_date),
                                      PERIOD_LENGTH)
        power_users == enumerate_power_users(power_users_record, pi_last_name,
                                             start_date, end_date)
    IN PriceRecord(power_users, start_date, FALSE)

\* policy.py:214-219
get_quarterly_power_user_price(power_users_record, pi_last_name, quarter_start) ==
    LET prices == enumerate_quarterly_power_user_prices(power_users_record,
                                                        pi_last_name, quarter_start)
    IN SumSeq([i \in 1..Len(prices) |-> prices[i][4]])

\* policy.py:246-250
get_quarterly_total_price(storage_record, power_users_record, pi_last_name, quarter_start) ==
    get_quarterly_storage_price(storage_record, pi_last_name, quarter_start)
    + get_quarterly_power_user_price(power_users_record, pi_last_name, quarter_start)

--------------------------------------------------------------------------
(* The forms, and the calls of the policy on the records read from them *)

MaxPiRows == 2
MaxStorageUpdates == 1
MaxUserRows == 2
MaxUserUpdates == 1

PINames == {"Apple", "Mango"}
UserNames == {"Nectarine", "Orange"}

PiStartDates == {date(2020, 11, 30), date(2020, 12, 1), date(2021, 2, 1)}

StorageUpdateDates == {date(2020, 12, 1), date(2020, 12, 31), date(2021, 1, 1)}

QuarterStarts == {date(2020, 11, 1), date(2020, 12, 15)}

\* billing.py:712-730  the rows load_pi_df reads
PiRows ==
    [last_name : PINames, start_timestamp : PiStartDates, storage : {10, 20}]

\* billing.py:746-774  the rows load_storage_update_df reads
StorageUpdateRows ==
    [timestamp : StorageUpdateDates, last_name : PINames, new_storage : {NaT, 5, -5},
     account_closed : BOOLEAN]

UserStartDates == {date(2020, 11, 30), date(2020, 12, 1), date(2021, 1, 1)}

UserEndDates == {date(2020, 12, 31), date(2021, 1, 1)}

UserUpdateDates == {date(2020, 12, 1), date(2021, 1, 1)}

\* billing.py:638-655, 797-811  the rows of the user frame
UserRows ==
    [last_name : UserNames, start_timestamp : UserStartDates,
     end_timestamp : UserEndDates \cup {NaT}, pi_last_name : PINames,
     power_user : BOOLEAN]

\* billing.py:671-700  the rows load_user_update_df reads: a new end date, or a
\* change of the power user status
UserUpdateRows ==
    [timestamp : UserUpdateDates, last_name : UserNames,
     new_end_timestamp : {date(2021, 1, 1)}, new_power_user : {None}]
    \cup [timestamp : UserUpdateDates, last_name : UserNames,
          new_end_timestamp : {NaT}, new_power_user : {"True", "False"}]

\* a user frame in which one PI has a power user and the other PI has none
MockUserFrame ==
    <<[last_name |-> "Nectarine", start_timestamp |-> date(2020, 11, 30),
       end_timestamp |-> NaT, pi_last_name |-> "Mango", power_user |-> TRUE]>>

NoCall == [op |-> "none", pi_last_name |-> None, start_date |-> NaT, ret |-> NaT]

StorageRecord == [storage_df |-> storage_df, storage_update_df |-> storage_update_df]
PowerUsersRecord ==
    [power_user_df |-> power_user_df, power_user_update_df |-> power_user_update_df]

KnownPIs == {storage_df[i].last_name : i \in 1..Len(storage_df)}

FoldIdle ==
    /\ users = {} /\ projects = <<>> /\ clock = NaT /\ handled = 0 /\ outcome = None
    /\ records = <<>> /\ out_dir = {}

InitStorage ==
    /\ storage_df = <<>>
    /\ storage_update_df = <<>>
    /\ power_user_df = MockUserFrame
    /\ power_user_update_df = <<>>
    /\ call = NoCall
    /\ FoldIdle

\* billing.py:703-730  one more row of the PI form
SubmitPiForm(row) ==
    /\ Len(storage_df) < MaxPiRows
    /\ storage_df' = Append(storage_df, row)
    /\ call' = NoCall
    /\ UNCHANGED <<storage_update_df, power_user_df, power_user_update_df, fold>>

\* billing.py:733-774  one more row of the storage update form
SubmitStorageUpdate(row) ==
    /\ Len(storage_update_df) < MaxStorageUpdates
    /\ storage_update_df' = Append(storage_update_df, row)
    /\ call' = NoCall
    /\ UNCHANGED <<storage_df, power_user_df, power_user_update_df, fold>>

Called(op, pi_last_name, start_date, ret) ==
    /\ call' = [op |-> op, pi_last_name |-> pi_last_name, start_date |-> start_date,
                ret |-> ret]
    /\ UNCHANGED <<storage_df, storage_update_df, power_user_df, power_user_update_df, fold>>

\* policy.py:31-70
IsBillablePi(pi_last_name, start_date) ==
    /\ pi_last_name \in KnownPIs
    /\ Called("is_billable_pi", pi_last_name, start_date,
              is_billable_pi(StorageRecord, pi_last_name, start_date))

\* policy.py:72-109
GetQuarterlyStorageAmount(pi_last_name, start_date) ==
    /\ pi_last_name \in KnownPIs
    /\ Called("get_quarterly_storage_amount", pi_last_name, start_date,
              get_quarterly_storage_amount(StorageRecord, pi_last_name, start_date))

\* policy.py:111-137
GetQuarterlyStoragePrice(pi_last_name, start_date) ==
    /\ pi_last_name \in KnownPIs
    /\ Called("get_quarterly_storage_price", pi_last_name, start_date,
              get_quarterly_storage_price(StorageRecord, pi_last_name, start_date))

\* policy.py:221-250
GetQuarterlyTotalPrice(pi_last_name, start_date) ==
    /\ pi_last_name \in KnownPIs
    /\ Called("get_quarterly_total_price", pi_last_name, start_date,
              get_quarterly_total_price(StorageRecord, PowerUsersRecord,
                                        pi_last_name, start_date))

NextStorage ==
    \/ \E row \in PiRows : SubmitPiForm(row)
    \/ \E row \in StorageUpdateRows : SubmitStorageUpdate(row)
    \/ \E pi \in PINames, qs \in QuarterStarts : IsBillablePi(pi, qs)
    \/ \E pi \in PINames, qs \in QuarterStarts : GetQuarterlyStorageAmount(pi, qs)
    \/ \E pi \in PINames, qs \in QuarterStarts : GetQuarterlyStoragePrice(pi, qs)
    \/ \E pi \in PINames, qs \in QuarterStarts : GetQuarterlyTotalPrice(pi, qs)

SpecStorage == InitStorage /\ [][NextStorage]_vars

--------------------------------------------------------------------------
(* Properties of the storage side of the policy *)

\* The last day of the k-th month of the quarter that holds the day qs
MonthEnd(qs, k) ==
    LET months == (MonthOf(qs) - 1) + (k - 1)
        y == YearOf(qs) + (months \div 12)
        m == (months % 12) + 1
    IN date(y, m, monthrange(y, m))

CallStorageStart == get_storage_start(StorageRecord, call.pi_last_name)
CallCloseDate == get_pi_account_close_date(StorageRecord, call.pi_last_name)

\* C1: is_billable_pi is false when the storage start is after the quarter's end,
\* otherwise false when the account has a close date on or before the last day of
\* the quarter's second month, otherwise true (never-closed accounts included); an
\* account closed exactly on that cutoff is not billable, one closed the day after is.
C1_IsBillableByStartAndCloseDate ==
    call.op = "is_billable_pi" =>
        LET quarter_end == MonthEnd(call.start_date, 3)
            cutoff2 == MonthEnd(call.start_date, 2)
        IN /\ call.ret = (IF CallStorageStart > quarter_end THEN FALSE
                          ELSE IF CallCloseDate # NaT /\ CallCloseDate <= cutoff2
                               THEN FALSE
                               ELSE TRUE)
           /\ (CallStorageStart <= quarter_end /\ CallCloseDate = cutoff2)
                  => call.ret = FALSE
           /\ (CallStorageStart <= quarter_end /\ CallCloseDate = cutoff2 + 1)
                  => call.ret = TRUE

\* an account closed exactly on the month-2 cutoff was asked about and is not billable
C1_ClosedOnCutoff ==
    /\ call.op = "is_billable_pi"
    /\ CallStorageStart <= MonthEnd(call.start_date, 3)
    /\ CallCloseDate = MonthEnd(call.start_date, 2)
    /\ call.ret = FALSE

\* C2: get_quarterly_storage_amount is 0 when the storage start is after the last
\* day of the quarter's first month, otherwise the minimum of the storage amounts as
\* of the month-1 and the month-2 cutoffs; the storage updates dated after the
\* month-2 cutoff do not change it.
C2_StorageAmountIsMinOfCutoffs ==
    call.op = "get_quarterly_storage_amount" =>
        LET pi == call.pi_last_name
            cutoff1 == MonthEnd(call.start_date, 1)
            cutoff2 == MonthEnd(call.start_date, 2)
            at1 == get_storage_amount(StorageRecord, pi, cutoff1)
            at2 == get_storage_amount(StorageRecord, pi, cutoff2)
            before == [storage_df |-> storage_df,
                       storage_update_df |->
                           SelectSeq(storage_update_df,
                                     LAMBDA r : r.timestamp <= cutoff2)]
        IN /\ call.ret = (IF CallStorageStart > cutoff1 THEN 0
                          ELSE IF at1 <= at2 THEN at1 ELSE at2)
           /\ call.ret = get_quarterly_storage_amount(before, pi, call.start_date)

\* storage was added between the two cutoffs and the smaller, earlier amount is billed
C2_GrownBetweenCutoffs ==
    /\ call.op = "get_quarterly_storage_amount"
    /\ CallStorageStart <= MonthEnd(call.start_date, 1)
    /\ get_storage_amount(StorageRecord, call.pi_last_name, MonthEnd(call.start_date, 1))
         < get_storage_amount(StorageRecord, call.pi_last_name,
                              MonthEnd(call.start_date, 2))
    /\ call.ret = get_storage_amount(StorageRecord, call.pi_last_name,
                                     MonthEnd(call.start_date, 1))
    /\ call.ret > 0

HasNoPowerUsers(pi_last_name) ==
    \A i \in 1..Len(power_user_df) : power_user_df[i].pi_last_name # pi_last_name

\* C7: get_quarterly_storage_price is the billed storage amount s times 50 times
\* 0.25 (1250 cents a terabyte), and for a PI with no power users
\* get_quarterly_total_price is that storage price (20 TB: 250.00 and 250.00).
C7_StoragePriceIsQuarterOfAnnual ==
    LET s == get_quarterly_storage_amount(StorageRecord, call.pi_last_name,
                                          call.start_date)
    IN /\ call.op = "get_quarterly_storage_price" => call.ret = s * 1250
       /\ (call.op = "get_quarterly_total_price" /\ HasNoPowerUsers(call.pi_last_name))
              => /\ call.ret = s * 1250
                 /\ s = 20 => call.ret = 25000

\* a PI with 20 TB and no power users was billed a total of 250.00
C7_TwentyTerabytesNoPowerUsers ==
    /\ call.op = "get_quarterly_total_price"
    /\ HasNoPowerUsers(call.pi_last_name)
    /\ get_quarterly_storage_amount(StorageRecord, call.pi_last_name,
                                    call.start_date) = 20
    /\ call.ret = 25000

--------------------------------------------------------------------------
(* The user forms, and the policy pricing the power users read from them *)

InitPowerUsers ==
    /\ storage_df = <<>>
    /\ storage_update_df = <<>>
    /\ power_user_df = <<>>
    /\ power_user_update_df = <<>>
    /\ call = NoCall
    /\ FoldIdle

\* billing.py:625-655  one more row of the user form
SubmitUserForm(row) ==
    /\ Len(power_user_df) < MaxUserRows
    /\ power_user_df' = Append(power_user_df, row)
    /\ call' = NoCall
    /\ UNCHANGED <<storage_df, storage_update_df, power_user_update_df, fold>>

\* billing.py:658-700  one more row of the user update form
SubmitUserUpdate(row) ==
    /\ Len(power_user_update_df) < MaxUserUpdates
    /\ power_user_update_df' = Append(power_user_update_df, row)
    /\ call' = NoCall
    /\ UNCHANGED <<storage_df, storage_update_df, power_user_df, fold>>

\* policy.py:139-189
EnumerateQuarterlyPowerUserPrices(pi_last_name, start_date) ==
    Called("enumerate_quarterly_power_user_prices", pi_last_name, start_date,
           enumerate_quarterly_power_user_prices(PowerUsersRecord, pi_last_name,
                                                 start_date))

NextPowerUsers ==
    \/ \E row \in UserRows : SubmitUserForm(row)
    \/ \E row \in UserUpdateRows : SubmitUserUpdate(row)
    \/ \E pi \in PINames, qs \in QuarterStarts :
           EnumerateQuarterlyPowerUserPrices(pi, qs)

SpecPowerUsers == InitPowerUsers /\ [][NextPowerUsers]_vars

--------------------------------------------------------------------------
(* Properties of the power user side of the policy *)

PricesCalled == call.op = "enumerate_quarterly_power_user_prices"

\* the term <<name, start, end, price>> passes the policy's two cutoffs
PassesCutoffs(term, qs) ==
    /\ term[2] <= MonthEnd(qs, 1)
    /\ term[3] = NaT \/ term[3] > MonthEnd(qs, 2)

BillableTerms == {i \in 1..Len(call.ret) : PassesCutoffs(call.ret[i], call.start_date)}

\* C3: with n >= 1 billable power users in the quarter, exactly one of them is
\* priced at the first power user's quarterly rate (250.00), exactly n - 1 at the
\* additional power user's quarterly rate (125.00), and every power user who is
\* not billable at 0.
C3_OneFirstRateOthersAdditional ==
    PricesCalled =>
        LET n == Cardinality(BillableTerms)
        IN /\ \A i \in (1..Len(call.ret)) \ BillableTerms : call.ret[i][4] = 0
           /\ n >= 1 =>
                /\ Cardinality({i \in BillableTerms : call.ret[i][4] = 25000}) = 1
                /\ Cardinality({i \in BillableTerms : call.ret[i][4] = 12500}) = n - 1

\* two billable power users were priced, one at 250.00 and one at 125.00
C3_TwoBillablePowerUsers ==
    /\ PricesCalled
    /\ Cardinality(BillableTerms) = 2
    /\ \E i, j \in BillableTerms : call.ret[i][4] = 25000 /\ call.ret[j][4] = 12500

ActivePowerUserDays(term, qs) ==
    Cardinality({d \in get_days_in_range(qs, MonthEnd(qs, 3)) :
                    /\ term[2] <= d
                    /\ term[3] = NaT \/ d <= term[3]})

MinimumUsageDays(qs) ==
    LET a == MonthEnd(qs, 2) - qs
        b == MonthEnd(qs, 3) - MonthEnd(qs, 1)
    IN IF a >= b THEN a ELSE b

\* C5: a power user enumerated for the quarter is priced above 0 only if the days
\* of the quarter on which the user is an active power user number at least
\* max(month-2 cutoff - quarter start, quarter end - month-1 cutoff); a user with
\* fewer such days is priced at 0.
C5_BilledOnlyWithMinimumUsageDays ==
    PricesCalled =>
        \A i \in 1..Len(call.ret) :
            call.ret[i][4] > 0 =>
                ActivePowerUserDays(call.ret[i], call.start_date)
                    >= MinimumUsageDays(call.start_date)

\* C6: a power user who started after the month-1 cutoff, or whose end date is
\* defined and on or before the month-2 cutoff, is priced at 0; a power user of
\* the same PI who started before the month-1 cutoff and has not ended is billed,
\* at 250.00 when the PI's other power users are all priced at 0 for those reasons.
C6_ShortUsageNotCharged ==
    PricesCalled =>
        LET cutoff1 == MonthEnd(call.start_date, 1)
            cutoff2 == MonthEnd(call.start_date, 2)
            short(t) == t[2] > cutoff1 \/ (t[3] # NaT /\ t[3] <= cutoff2)
        IN \A i \in 1..Len(call.ret) :
               /\ short(call.ret[i]) => call.ret[i][4] = 0
               /\ (call.ret[i][2] < cutoff1 /\ call.ret[i][3] = NaT) =>
                      /\ call.ret[i][4] \in {25000, 12500}
                      /\ (\A j \in (1..Len(call.ret)) \ {i} : short(call.ret[j]))
                             => call.ret[i][4] = 25000

\* one power user started before the month-1 cutoff and has not ended, another
\* started after it: the first is billed 250.00 and the second 0
C6_EarlyAndLateStarter ==
    /\ PricesCalled
    /\ Len(call.ret) = 2
    /\ call.ret[1][2] < MonthEnd(call.start_date, 1)
    /\ call.ret[1][3] = NaT
    /\ call.ret[1][4] = 25000
    /\ call.ret[2][2] > MonthEnd(call.start_date, 1)
    /\ call.ret[2][4] = 0

--------------------------------------------------------------------------
(* records.py: User.  The class the spreadsheet package imports is not in  *)
(* the source tree (records.py there holds the older abstract records), so *)
(* the two definitions below follow the specification: a term covers       *)
(* [start_date, end_date], open-ended when end_date is None, and an end    *)
(* date before the start date is rejected at construction.                 *)

is_active(user, d) ==
    /\ user.start_date <= d
    /\ user.end_date = NaT \/ d <= user.end_date

valid_date_range(user) ==
    user.end_date = NaT \/ user.end_date >= user.start_date

--------------------------------------------------------------------------
(* spreadsheet/user.py.  A user is [email, start_date, end_date, updates]  *)
(* (the name travels with the email and is left out); an Update is         *)
(* [date, power_user, pi_name].                                            *)

\* user.py:16-22
Update(d, power_user, pi_name) ==
    [date |-> d, power_user |-> power_user, pi_name |-> pi_name]

\* _both_defined without the test of pi_name
both_defined_power_user_only(value) ==
    IF ~(\E update \in value : update.power_user # None) THEN "InvalidUserError"
    ELSE None

\* user.py:25-33
both_defined(value) ==
    IF ~(\E update \in value : update.power_user # None) THEN "InvalidUserError"
    ELSE IF ~(\E update \in value : update.pi_name # None) THEN "InvalidUserError"
    ELSE None

\* validate without the date-range validator of User
validate_updates_only(user) ==
    both_defined(user.updates)

\* attrs __init__ / evolve: the validators run on every new UpdateUser
validate(user) ==
    IF ~valid_date_range(user) THEN "InvalidDateRangeError"
    ELSE both_defined(user.updates)

\* the orders in which a frozenset of updates may be iterated
Orders(updates) ==
    {order \in [1..Cardinality(updates) -> updates] :
        \A update \in updates : \E i \in DOMAIN order : order[i] = update}

\* max(candidates, key=lambda update: update.date): the first update, in
\* iteration order, of the latest date
MaxByDate(candidates, order) ==
    LET i == CHOOSE i \in DOMAIN order :
                 /\ order[i] \in candidates
                 /\ \A j \in DOMAIN order :
                        order[j] \in candidates =>
                            \/ order[j].date < order[i].date
                            \/ order[j].date = order[i].date /\ i <= j
    IN order[i]

\* is_power_user without the "power_user is not None" test
is_power_user_any_update(user, d, order) ==
    LET candidates == {update \in user.updates : update.date <= d}
    IN IF ~is_active(user, d) THEN "InactiveUserError"
       ELSE IF candidates = {} THEN "ValueError"
       ELSE MaxByDate(candidates, order).power_user

\* user.py:47-57  (order: the iteration order of self.updates)
is_power_user(user, d, order) ==
    LET candidates == {update \in user.updates :
                          update.power_user # None /\ update.date <= d}
    IN IF ~is_active(user, d) THEN "InactiveUserError"
       ELSE IF candidates = {} THEN "ValueError"
       ELSE MaxByDate(candidates, order).power_user

\* user.py:59-69
get_pi_name(user, d, order) ==
    LET candidates == {update \in user.updates :
                          update.pi_name # None /\ update.date <= d}
    IN IF ~is_active(user, d) THEN "InactiveUserError"
       ELSE IF candidates = {} THEN "ValueError"
       ELSE MaxByDate(candidates, order).pi_name

Raised(value) ==
    value \in {"InvalidUserError", "InvalidDateRangeError", "InactiveUserError",
               "ValueError", "TypeError", "InapplicableUpdateError",
               "UserAlreadyActiveError", "UnattachedUserError"}

\* create_user with its first update dated the day after the start date
create_user_update_next_day(self) ==
    [email |-> self.email, start_date |-> self.timestamp, end_date |-> self.end_date,
     updates |-> {Update(self.timestamp + 1, self.power_user, self.pi_name)}]

\* user.py:108-124
create_user(self) ==
    [email |-> self.email, start_date |-> self.timestamp, end_date |-> self.end_date,
     updates |-> {Update(self.timestamp, self.power_user, self.pi_name)}]

\* user.py:126-137
AccountRequest_update_user(self, user) ==
    [user EXCEPT !.end_date = self.end_date,
                 !.updates = user.updates
                     \cup {Update(self.timestamp, self.power_user, self.pi_name)}]

\* max(users of this email, key=lambda user: user.start_date)
LatestTerms(existing_users, email) ==
    {user \in existing_users :
        /\ user.email = email
        /\ \A other \in existing_users :
               other.email = email => other.start_date <= user.start_date}

\* the handlers return the new working set or raise
Returned(new_users) == [users |-> new_users, raised |-> None]
Raise(error, existing_users) == [users |-> existing_users, raised |-> error]

\* existing_users with one more user, or the exception of its construction
WithUser(existing_users, user) ==
    IF validate(user) # None THEN Raise(validate(user), existing_users)
    ELSE Returned(existing_users \cup {user})

\* handle creating a user whether or not the email is known
AccountRequest_handle_always_creates(self, existing_users, to_update) ==
    WithUser(existing_users, create_user(self))

\* user.py:139-149
AccountRequest_handle(self, existing_users, to_update) ==
    IF self.email \in {user.email : user \in existing_users}
    THEN WithUser(existing_users \ {to_update},
                  AccountRequest_update_user(self, to_update))
    ELSE WithUser(existing_users, create_user(self))

\* user.py:190-197
AccountUpdate_update_user(self, user) ==
    [user EXCEPT !.updates = user.updates
                     \cup {Update(self.timestamp, self.power_user, self.pi_name)}]

\* reinstate_user without its check that the user is not active
reinstate_user_unchecked(self, user, order) ==
    LET pi_name == IF self.pi_name # None THEN self.pi_name
                   ELSE IF user.end_date = NaT THEN "TypeError"
                   ELSE get_pi_name(user, user.end_date, order)
        power_user == IF self.power_user # None THEN self.power_user
                      ELSE IF user.end_date = NaT THEN "TypeError"
                      ELSE is_power_user(user, user.end_date, order)
    IN IF Raised(pi_name) THEN [raised |-> pi_name, user |-> user]
       ELSE IF Raised(power_user) THEN [raised |-> power_user, user |-> user]
       ELSE [raised |-> None,
             user |-> [user EXCEPT
                          !.start_date = self.timestamp,
                          !.end_date = IF self.end_date # NaT THEN self.end_date ELSE @,
                          !.updates = {Update(self.timestamp, power_user, pi_name)}]]

\* reinstate_user inheriting the latest values of the expired term, whatever
\* their date
reinstate_user_latest_values(self, user, order) ==
    LET pi_name == IF self.pi_name # None THEN self.pi_name
                   ELSE MaxByDate({update \in user.updates : update.pi_name # None},
                                  order).pi_name
        power_user == IF self.power_user # None THEN self.power_user
                      ELSE MaxByDate({update \in user.updates :
                                         update.power_user # None}, order).power_user
    IN IF is_active(user, self.timestamp)
       THEN [raised |-> "UserAlreadyActiveError", user |-> user]
       ELSE [raised |-> None,
             user |-> [user EXCEPT
                          !.start_date = self.timestamp,
                          !.end_date = IF self.end_date # NaT THEN self.end_date ELSE @,
                          !.updates = {Update(self.timestamp, power_user, pi_name)}]]

\* user.py:199-228  [raised, user]: the exception raised, or the new term
reinstate_user(self, user, order) ==
    LET pi_name == IF self.pi_name # None THEN self.pi_name
                   ELSE IF user.end_date = NaT THEN "TypeError"
                   ELSE get_pi_name(user, user.end_date, order)
        power_user == IF self.power_user # None THEN self.power_user
                      ELSE IF user.end_date = NaT THEN "TypeError"
                      ELSE is_power_user(user, user.end_date, order)
    IN IF is_active(user, self.timestamp)
       THEN [raised |-> "UserAlreadyActiveError", user |-> user]
       ELSE IF Raised(pi_name) THEN [raised |-> pi_name, user |-> user]
       ELSE IF Raised(power_user) THEN [raised |-> power_user, user |-> user]
       ELSE [raised |-> None,
             user |-> [user EXCEPT
                          !.start_date = self.timestamp,
                          !.end_date = IF self.end_date # NaT THEN self.end_date ELSE @,
                          !.updates = {Update(self.timestamp, power_user, pi_name)}]]

\* handle with an update of an unseen email left out of the fold
AccountUpdate_handle_unseen_dropped(self, existing_users, to_update, order) ==
    IF self.email \notin {user.email : user \in existing_users}
    THEN Returned(existing_users)
    ELSE IF is_active(to_update, self.timestamp)
    THEN WithUser(existing_users \ {to_update},
                  AccountUpdate_update_user(self, to_update))
    ELSE LET reinstated == reinstate_user(self, to_update, order)
         IN IF reinstated.raised # None
            THEN Raise(reinstated.raised, existing_users)
            ELSE WithUser(existing_users, reinstated.user)

\* user.py:230-242
AccountUpdate_handle(self, existing_users, to_update, order) ==
    IF self.email \notin {user.email : user \in existing_users}
    THEN Raise("InapplicableUpdateError", existing_users)
    ELSE IF is_active(to_update, self.timestamp)
    THEN WithUser(existing_users \ {to_update},
                  AccountUpdate_update_user(self, to_update))
    ELSE LET reinstated == reinstate_user(self, to_update, order)
         IN IF reinstated.raised # None
            THEN Raise(reinstated.raised, existing_users)
            ELSE WithUser(existing_users, reinstated.user)

--------------------------------------------------------------------------
(* The fold of user.py:304-306 over the account requests and updates *)

MaxChanges == 3

Emails == {"nectarine@example.com", "orange@example.com"}

Day1 == date(2020, 11, 1)
ChangeDays == Day1..(Day1 + 3)

\* user.py:83-92
AccountRequests ==
    [timestamp : ChangeDays, email : Emails, pi_name : {"Mango"},
     power_user : {"True", "False"}, end_date : {NaT, Day1 + 1}]

\* user.py:163-172
AccountUpdates ==
    [timestamp : ChangeDays, email : Emails, pi_name : {None, "Apple"},
     power_user : {None, "False"}, end_date : {NaT, Day1 + 3}]

NoUser == [email |-> None, start_date |-> NaT, end_date |-> NaT, updates |-> {}]

\* the term max() picks for the email, NoUser when the email is new
ToUpdate(email) ==
    IF LatestTerms(users, email) = {} THEN {NoUser} ELSE LatestTerms(users, email)

InitUsers ==
    /\ storage_df = <<>>
    /\ storage_update_df = <<>>
    /\ power_user_df = <<>>
    /\ power_user_update_df = <<>>
    /\ call = NoCall
    /\ FoldIdle

\* one step of the fold: the working set replaced by what the handler returned,
\* or the run ended by what it raised
Handled(op, self, result) ==
    /\ users' = IF result.raised = None THEN result.users ELSE users
    /\ outcome' = result.raised
    /\ clock' = self.timestamp
    /\ handled' = handled + 1
    /\ call' = [op |-> op, self |-> self, existing_users |-> users]
    /\ UNCHANGED <<forms, projects, records, out_dir>>

\* user.py:139-149
HandleAccountRequest(self) ==
    /\ outcome = None
    /\ handled < MaxChanges
    /\ self.timestamp >= clock
    /\ \E to_update \in ToUpdate(self.email) :
           Handled("AccountRequest.handle", self,
                   AccountRequest_handle(self, users, to_update))

\* user.py:230-242
HandleAccountUpdate(self) ==
    /\ outcome = None
    /\ handled < MaxChanges
    /\ self.timestamp >= clock
    /\ \E to_update \in ToUpdate(self.email) :
           \E order \in Orders(to_update.updates) :
               Handled("AccountUpdate.handle", self,
                       AccountUpdate_handle(self, users, to_update, order))

\* user.py:199-228  reinstate_user called on a term of the working set
ReinstateUser(self, user) ==
    /\ outcome = None
    /\ handled < MaxChanges
    /\ self.timestamp >= clock
    /\ user.email = self.email
    /\ \E order \in Orders(user.updates) :
           LET reinstated == reinstate_user(self, user, order)
           IN /\ call' = [op |-> "reinstate_user", self |-> self, user |-> user,
                          ret |-> reinstated]
              /\ outcome' = reinstated.raised
    /\ handled' = handled + 1
    /\ UNCHANGED <<forms, users, projects, clock, records, out_dir>>

NextUsers ==
    \/ \E self \in AccountRequests : HandleAccountRequest(self)
    \/ \E self \in AccountUpdates : HandleAccountUpdate(self)
    \/ \E self \in AccountUpdates : \E user \in users : ReinstateUser(self, user)

SpecUsers == InitUsers /\ [][NextUsers]_vars

--------------------------------------------------------------------------
(* Properties of the fold over the account requests and updates *)

TermsOf(working_set, email) == {user \in working_set : user.email = email}

UpdateHandled == call.op = "AccountUpdate.handle"

\* every term the email had before the update had ended before the update's date
ClosedBefore(existing_users, self) ==
    /\ TermsOf(existing_users, self.email) # {}
    /\ \A user \in TermsOf(existing_users, self.email) :
           user.end_date # NaT /\ user.end_date < self.timestamp

\* C8: after a user was created and closed (end date E), an update of a date S
\* after E leaves in the working set a term of that email that is active on S, and
\* no term of that email active on the day before S when that day is after E,
\* whether or not the update carries a new end date.
C8_ReinstatementRoundTrip ==
    (UpdateHandled /\ ClosedBefore(call.existing_users, call.self)) =>
        LET S == call.self.timestamp
            terms == TermsOf(users, call.self.email)
        IN /\ \E user \in terms : is_active(user, S)
           /\ \A old \in TermsOf(call.existing_users, call.self.email) :
                  (\A other \in TermsOf(call.existing_users, call.self.email) :
                       other.end_date <= old.end_date) =>
                      (S - 1 > old.end_date =>
                          \A user \in terms : ~is_active(user, S - 1))

Overlap(a, b) ==
    /\ a.end_date = NaT \/ b.start_date <= a.end_date
    /\ b.end_date = NaT \/ a.start_date <= b.end_date
    /\ valid_date_range(a)
    /\ valid_date_range(b)

\* C9: reinstate_user on a user who is active on the update's date raises
\* UserAlreadyActiveError and yields no term; an update handled for an active user
\* adds no term for the email, and no two terms of one email ever overlap.
C9_ActiveUserNotReinstated ==
    /\ (call.op = "reinstate_user" /\ is_active(call.user, call.self.timestamp)) =>
           /\ call.ret.raised = "UserAlreadyActiveError"
           /\ call.ret.user = call.user
           /\ outcome = "UserAlreadyActiveError"
    /\ (/\ UpdateHandled
        /\ \E user \in LatestTerms(call.existing_users, call.self.email) :
               is_active(user, call.self.timestamp)) =>
           Cardinality(TermsOf(users, call.self.email))
               = Cardinality(TermsOf(call.existing_users, call.self.email))
    /\ \A a \in users : \A b \in users \ {a} : a.email = b.email => ~Overlap(a, b)

\* reinstate_user was called on an active user and raised
C9_ReinstateActiveRaised ==
    /\ call.op = "reinstate_user"
    /\ is_active(call.user, call.self.timestamp)
    /\ call.ret.raised = "UserAlreadyActiveError"

--------------------------------------------------------------------------
(* spreadsheet/project.py and spreadsheet/record.py *)

\* project.py:16-22
ProjectUpdate(d, speed_code, additional_storage) ==
    [date |-> d, speed_code |-> speed_code, additional_storage |-> additional_storage]

\* the elements of a Python list
SetOf(list) == {list[i] : i \in DOMAIN list}

\* project.py:113-131
NewPiRequest_handle(self, existing_projects) ==
    Append(existing_projects,
           [open_date |-> self.timestamp, email |-> self.email,
            pi_last_name |-> self.name, close_date |-> NaT,
            updates |-> {ProjectUpdate(self.timestamp, self.speed_code,
                                       self.storage)}])

\* check_all_power_users with the power user test left out
check_all_power_users_any_user(all_users, all_projects, start_date, end_date) ==
    LET days == get_days_in_range(start_date, end_date)
        all_pi_names == {project.pi_last_name : project \in SetOf(all_projects)}
        unattached(user, order) ==
            \E d \in days :
                /\ is_active(user, d)
                /\ get_pi_name(user, d, order) \notin all_pi_names
    IN {ret \in {"UnattachedUserError", None} :
            IF ret = None
            THEN \A user \in all_users :
                     \E order \in Orders(user.updates) : ~unattached(user, order)
            ELSE \E user \in all_users :
                     \E order \in Orders(user.updates) : unattached(user, order)}

\* record.py:189-207  what the check may do: raise UnattachedUserError or return
\* None (each user's updates being iterated in one of their orders)
check_all_power_users(all_users, all_projects, start_date, end_date) ==
    LET days == get_days_in_range(start_date, end_date)
        all_pi_names == {project.pi_last_name : project \in SetOf(all_projects)}
        unattached(user, order) ==
            \E d \in days :
                /\ is_active(user, d)
                /\ get_pi_name(user, d, order) \notin all_pi_names
                /\ is_power_user(user, d, order) = "True"
    IN {ret \in {"UnattachedUserError", None} :
            IF ret = None
            THEN \A user \in all_users :
                     \E order \in Orders(user.updates) : ~unattached(user, order)
            ELSE \E user \in all_users :
                     \E order \in Orders(user.updates) : unattached(user, order)}

--------------------------------------------------------------------------
(* The users and the projects rebuilt for a window, and the check of       *)
(* record.py:165 on them                                                   *)

MaxProjects == 2

\* project.py:90-99
NewPiRequests ==
    [timestamp : {Day1}, name : PINames, email : {"pi@example.com"},
     speed_code : {"AAAA"}, power_user : {"False"}, storage : {10}]

RecordAccountRequests ==
    [timestamp : {Day1}, email : Emails, pi_name : PINames,
     power_user : {"True", "False"}, end_date : {NaT, Day1 + 1}]

RecordAccountUpdates ==
    [timestamp : {Day1 + 1, Day1 + 2}, email : Emails, pi_name : {None, "Apple"},
     power_user : {None, "True"}, end_date : {Day1 + 3}]

Windows == {<<Day1, Day1 + 1>>, <<Day1 + 2, Day1 + 3>>}

\* project.py:113-131
HandleNewPiRequest(self) ==
    /\ outcome = None
    /\ Len(projects) < MaxProjects
    /\ projects' = NewPiRequest_handle(self, projects)
    /\ call' = [op |-> "NewPiRequest.handle", self |-> self]
    /\ UNCHANGED <<forms, users, clock, handled, outcome, records, out_dir>>

\* record.py:189-207
CheckAllPowerUsers(start_date, end_date) ==
    /\ outcome = None
    /\ \E ret \in check_all_power_users(users, projects, start_date, end_date) :
           /\ call' = [op |-> "check_all_power_users", start_date |-> start_date,
                       end_date |-> end_date, ret |-> ret]
           /\ outcome' = ret
    /\ UNCHANGED <<forms, users, projects, clock, handled, records, out_dir>>

NextRecords ==
    \/ \E self \in NewPiRequests : HandleNewPiRequest(self)
    \/ \E self \in RecordAccountRequests : HandleAccountRequest(self)
    \/ \E self \in RecordAccountUpdates : HandleAccountUpdate(self)
    \/ \E window \in Windows : CheckAllPowerUsers(window[1], window[2])

SpecRecords == InitUsers /\ [][NextRecords]_vars

\* the user is, whatever the order its updates are iterated in, an active power
\* user of a PI without project on some day of the window
SurelyUnattached(user, start_date, end_date) ==
    \E d \in start_date..end_date :
        /\ is_active(user, d)
        /\ \A order \in Orders(user.updates) :
               /\ is_power_user(user, d, order) = "True"
               /\ \A project \in SetOf(projects) :
                      project.pi_last_name # get_pi_name(user, d, order)

\* the same, for some order of iteration
MaybeUnattached(user, start_date, end_date) ==
    \E d \in start_date..end_date :
        /\ is_active(user, d)
        /\ \E order \in Orders(user.updates) :
               /\ is_power_user(user, d, order) = "True"
               /\ \A project \in SetOf(projects) :
                      project.pi_last_name # get_pi_name(user, d, order)

\* C10: check_all_power_users raises UnattachedUserError when some user is, on
\* some day of the window, active, a power user and of a PI name that no project
\* has, and returns normally when no user is; it raises in no other case.
C10_RaisesExactlyForUnattachedPowerUsers ==
    call.op = "check_all_power_users" =>
        /\ (\E user \in users : SurelyUnattached(user, call.start_date, call.end_date))
               => call.ret = "UnattachedUserError"
        /\ call.ret = "UnattachedUserError"
               => \E user \in users :
                      MaybeUnattached(user, call.start_date, call.end_date)
        /\ outcome = call.ret

\* the check raised for a power user whose PI has no project while another PI has one
C10_UnattachedPowerUserRaised ==
    /\ call.op = "check_all_power_users"
    /\ projects # <<>>
    /\ \E user \in users : SurelyUnattached(user, call.start_date, call.end_date)
    /\ call.ret = "UnattachedUserError"

--------------------------------------------------------------------------
(* dateutils.py / policy.py: get_end_of_period called on its own *)

MaxNumMonths == 14

PeriodYears == {2020, 2021}

InitCalendar ==
    /\ storage_df = <<>>
    /\ storage_update_df = <<>>
    /\ power_user_df = <<>>
    /\ power_user_update_df = <<>>
    /\ call = NoCall
    /\ FoldIdle

\* dateutils.py:17-54
GetEndOfPeriod(start_year, start_month, num_months) ==
    /\ call' = [op |-> "get_end_of_period", start_year |-> start_year,
                start_month |-> start_month, num_months |-> num_months,
                ret |-> get_end_of_period(start_year, start_month, num_months)]
    /\ UNCHANGED <<forms, fold>>

NextCalendar ==
    \E start_year \in PeriodYears, start_month \in 1..12, num_months \in 0..MaxNumMonths :
        GetEndOfPeriod(start_year, start_month, num_months)

SpecCalendar == InitCalendar /\ [][NextCalendar]_vars

\* the last day of the month that is offset months after (year, month)
LastDayAfter(year, month, offset) ==
    LET months == (month - 1) + offset
        y == year + (months \div 12)
        m == (months % 12) + 1
    IN date(y, m, monthrange(y, m))

\* C15: get_end_of_period(year, month, num_months) is the last calendar day of the
\* month that is num_months - 1 months after (year, month), whole years carried
\* for num_months >= 12, an offset past December rolling into the next year, and
\* num_months = 0 in January giving 31 December of the year before.
C15_EndOfPeriodIsLastDayOfOffsetMonth ==
    call.op = "get_end_of_period" =>
        call.ret = LastDayAfter(call.start_year, call.start_month,
                                call.num_months - 1)

--------------------------------------------------------------------------
(* spreadsheet/user.py: the point-in-time queries of one UpdateUser *)

MaxExtraUpdates == 2

QueryDays == Day1..(Day1 + 3)

\* the updates update_user can add to a term (user.py:190-197): dated on or
\* after the term's start, each attribute set or left None
LaterUpdates ==
    {Update(d, power_user, pi_name) :
        d \in Day1..(Day1 + 2),
        power_user \in {None, "True", "False"},
        pi_name \in {None, "Apple"}}

\* the terms create_user builds (user.py:101-117), one update of the start date
\* setting both attributes, with up to MaxExtraUpdates updates added
QueryUsers ==
    {[email |-> "nectarine@example.com", start_date |-> Day1,
      end_date |-> end_date,
      updates |-> {Update(Day1, power_user, "Mango")} \cup extra] :
        end_date \in {NaT, Day1 + 2},
        power_user \in {"True", "False"},
        extra \in {updates \in SUBSET LaterUpdates :
                      Cardinality(updates) <= MaxExtraUpdates}}

InitQueries ==
    /\ storage_df = <<>>
    /\ storage_update_df = <<>>
    /\ power_user_df = <<>>
    /\ power_user_update_df = <<>>
    /\ call = NoCall
    /\ users \in {{user} : user \in {u \in QueryUsers : validate(u) = None}}
    /\ projects = <<>>
    /\ clock = NaT
    /\ handled = 0
    /\ outcome = None
    /\ records = <<>>
    /\ out_dir = {}

\* user.py:47-57
IsPowerUser(user, d, order) ==
    /\ call' = [op |-> "is_power_user", self |-> user, date |-> d,
                order |-> order, ret |-> is_power_user(user, d, order)]
    /\ UNCHANGED <<forms, fold>>

NextQueries ==
    \E user \in users, d \in QueryDays :
        \E order \in Orders(user.updates) : IsPowerUser(user, d, order)

SpecQueries == InitQueries /\ [][NextQueries]_vars

\* the updates of a user that set power_user
SettingUpdates(user) == {update \in user.updates : update.power_user # None}

\* an iteration order with one update left out
Without(order, left_out) ==
    SelectSeq(order, LAMBDA update : update # left_out)

\* C12: on an active date d, is_power_user(d) is the value of the power_user-setting
\* update of the latest date on or before d (the t1 value on [t1, t2), the t2
\* value from t2 until the next setting update), and an update that does not set
\* power_user never changes the answer.
C12_PowerUserIsLatestSettingOnOrBefore ==
    (call.op = "is_power_user" /\ is_active(call.self, call.date)) =>
        /\ \A t1 \in SettingUpdates(call.self) :
               (/\ t1.date <= call.date
                /\ \A t2 \in SettingUpdates(call.self) \ {t1} :
                       t2.date < t1.date \/ t2.date > call.date)
                   => call.ret = t1.power_user
        /\ \A update \in call.self.updates \ SettingUpdates(call.self) :
               is_power_user([call.self EXCEPT !.updates = @ \ {update}],
                             call.date, Without(call.order, update)) = call.ret

\* a query on or after t2 answered with the t2 value, which differs from the t1
\* value, with an update not setting power_user dated after t2
C12_SecondSettingAnswered ==
    /\ call.op = "is_power_user"
    /\ is_active(call.self, call.date)
    /\ \E t1, t2 \in SettingUpdates(call.self) :
           /\ t1.date < t2.date
           /\ t2.date <= call.date
           /\ t1.power_user # t2.power_user
           /\ call.ret = t2.power_user
           /\ \E update \in call.self.updates \ SettingUpdates(call.self) :
                  t2.date < update.date /\ update.date <= call.date

--------------------------------------------------------------------------
(* the fold of enumerate_all_users: an update for an unseen email *)

\* C16: when the fold reaches an update whose email matches no user of the
\* working set, it fails with InapplicableUpdateError and returns no collection;
\* the update is never silently dropped.
C16_UnmatchedUpdateRaises ==
    (/\ call.op = "AccountUpdate.handle"
     /\ call.self.email \notin {user.email : user \in call.existing_users})
        => /\ outcome = "InapplicableUpdateError"
           /\ users = call.existing_users

\* an update for an email no user has, met with another user in the working set
C16_UnmatchedUpdateAmongUsers ==
    /\ call.op = "AccountUpdate.handle"
    /\ call.existing_users # {}
    /\ call.self.email \notin {user.email : user \in call.existing_users}
    /\ outcome = "InapplicableUpdateError"

--------------------------------------------------------------------------
(* spreadsheet/user.py: enumerate_all_users over the two user frames *)

\* user.py:72-80  the rows of the account request frame
AccountRequestTuples ==
    [start_timestamp : Day1..(Day1 + 2), email : {"nectarine@example.com"},
     pi_last_name : {"Mango"}, power_user : BOOLEAN,
     end_timestamp : {NaT, Day1 + 1}]

\* user.py:152-160  the rows of the account update frame
AccountUpdateTuples ==
    [timestamp : Day1..(Day1 + 2), email : {"nectarine@example.com"},
     pi_last_name : {None, "Apple"}, new_power_user : {None, "True", "False"},
     new_end_timestamp : {NaT, Day1 + 3}]

\* user.py:94-107
AccountRequest_from_pd_tuple(tuple_) ==
    [kind |-> "AccountRequest", timestamp |-> tuple_.start_timestamp,
     email |-> tuple_.email, pi_name |-> tuple_.pi_last_name,
     power_user |-> IF tuple_.power_user THEN "True" ELSE "False",
     end_date |-> tuple_.end_timestamp]

\* user.py:174-188
AccountUpdate_from_pd_tuple(tuple_) ==
    [kind |-> "AccountUpdate", timestamp |-> tuple_.timestamp,
     email |-> tuple_.email, pi_name |-> tuple_.pi_last_name,
     power_user |-> tuple_.new_power_user,
     end_date |-> tuple_.new_end_timestamp]

\* change.handle(users): every working set the call can return, over the ties
\* of max() and the iteration orders of the frozenset of updates
HandleChange(change, existing_users) ==
    LET latest == LatestTerms(existing_users, change.email)
        candidates == IF latest = {} THEN {NoUser} ELSE latest
    IN IF change.kind = "AccountRequest"
       THEN {AccountRequest_handle(change, existing_users, to_update) :
                to_update \in candidates}
       ELSE UNION {{AccountUpdate_handle(change, existing_users, to_update, order) :
                       order \in Orders(to_update.updates)} :
                   to_update \in candidates}

\* user.py:304-305  the loop over the sorted changes, ended by an exception
RECURSIVE FoldChanges(_, _)
FoldChanges(changes, results) ==
    IF changes = <<>> THEN results
    ELSE FoldChanges(Tail(changes),
                     UNION {IF result.raised # None THEN {result}
                            ELSE HandleChange(Head(changes), result.users) :
                            result \in results})

\* user.py:295-310  the fold of the filtered frames and the filter of the result
FoldedUsers(user_df, update_df, start_date) ==
    LET requests == [i \in DOMAIN user_df |-> AccountRequest_from_pd_tuple(user_df[i])]
        updates == [i \in DOMAIN update_df |-> AccountUpdate_from_pd_tuple(update_df[i])]
        changes == SortByTimestamp(requests \o updates)
    IN {IF result.raised # None THEN Raise(result.raised, {})
        ELSE Returned({user \in result.users :
                          user.end_date = NaT \/ user.end_date > start_date}) :
        result \in FoldChanges(changes, {Returned({})})}

\* user.py:245-310  the results the call can give
enumerate_all_users(user_frame, update_frame, start_date, end_date) ==
    FoldedUsers(SelectSeq(user_frame, LAMBDA row : row.start_timestamp < end_date),
                SelectSeq(update_frame,
                          LAMBDA row : /\ row.timestamp < end_date
                                       /\ row.new_end_timestamp # NaT),
                start_date)

ReconstructWindows == {<<Day1, Day1 + 2>>, <<Day1 + 1, Day1 + 3>>}

\* user.py:245-310
EnumerateAllUsers(start_date, end_date) ==
    /\ \E ret \in enumerate_all_users(power_user_df, power_user_update_df,
                                      start_date, end_date) :
           call' = [op |-> "enumerate_all_users", start_date |-> start_date,
                    end_date |-> end_date, ret |-> ret]
    /\ UNCHANGED <<forms, fold>>

NextReconstruct ==
    \/ \E row \in AccountRequestTuples : SubmitUserForm(row)
    \/ \E row \in AccountUpdateTuples : SubmitUserUpdate(row)
    \/ \E window \in ReconstructWindows : EnumerateAllUsers(window[1], window[2])

SpecReconstruct == InitUsers /\ [][NextReconstruct]_vars

\* the fold over the creation rows dated strictly before end_date and the update
\* rows dated strictly before end_date that carry a new end date, a new power
\* user flag or a new PI
FoldOfEveryChange(user_frame, update_frame, start_date, end_date) ==
    FoldedUsers(SelectSeq(user_frame, LAMBDA row : row.start_timestamp < end_date),
                SelectSeq(update_frame,
                          LAMBDA row : /\ row.timestamp < end_date
                                       /\ \/ row.new_end_timestamp # NaT
                                          \/ row.new_power_user # None
                                          \/ row.pi_last_name # None),
                start_date)

\* C18: enumerate_all_users folds every creation row dated strictly before
\* end_date and every update row dated strictly before end_date that changes the
\* end date, the power user flag or the PI (an update of the flag alone or of
\* the PI alone included), and no row dated on or after end_date.
C18_FoldsEveryChangeBeforeEnd ==
    call.op = "enumerate_all_users" =>
        call.ret \in FoldOfEveryChange(power_user_df, power_user_update_df,
                                       call.start_date, call.end_date)

\* C11: reconstruction is deterministic: every run of enumerate_all_users on the
\* same frames and the same window gives the same collection of users (same
\* emails, start and end dates and update sets), whatever the hidden state of
\* the run (here the iteration order of the sets, which follows the hash seed).
C11_ReconstructionDeterministic ==
    call.op = "enumerate_all_users" =>
        \A other \in enumerate_all_users(power_user_df, power_user_update_df,
                                         call.start_date, call.end_date) :
            other = call.ret

--------------------------------------------------------------------------
(* spreadsheet/project.py: the point-in-time queries of one Project *)

\* project.py:50-54
Project_is_active(project, d) ==
    /\ d >= project.open_date
    /\ project.close_date = NaT \/ d <= project.close_date

\* project.py:70-76  (order: the iteration order of self.updates)
get_speed_code(project, d, order) ==
    LET candidates == {update \in project.updates : update.speed_code # None}
    IN IF ~Project_is_active(project, d) THEN "InactiveProjectError"
       ELSE IF candidates = {} THEN "ValueError"
       ELSE MaxByDate(candidates, order).speed_code

\* the updates PiUpdate.handle can add to a project (project.py:206-210)
LaterProjectUpdates ==
    {ProjectUpdate(d, speed_code, additional_storage) :
        d \in Day1..(Day1 + 2),
        speed_code \in {None, "BBBB", "CCCC"},
        additional_storage \in {NaT, 5}}

\* the projects NewPiRequest.handle builds (project.py:113-131), one update of
\* the open date, with up to MaxExtraUpdates updates added
QueryProjects ==
    {[open_date |-> Day1, email |-> "pi@example.com", pi_last_name |-> "Mango",
      close_date |-> close_date,
      updates |-> {ProjectUpdate(Day1, "AAAA", 10)} \cup extra] :
        close_date \in {NaT, Day1 + 2},
        extra \in {updates \in SUBSET LaterProjectUpdates :
                      Cardinality(updates) <= MaxExtraUpdates}}

InitProjectQueries ==
    /\ storage_df = <<>>
    /\ storage_update_df = <<>>
    /\ power_user_df = <<>>
    /\ power_user_update_df = <<>>
    /\ call = NoCall
    /\ users = {}
    /\ projects \in {<<project>> : project \in QueryProjects}
    /\ clock = NaT
    /\ handled = 0
    /\ outcome = None
    /\ records = <<>>
    /\ out_dir = {}

\* project.py:70-76
GetSpeedCode(project, d, order) ==
    /\ call' = [op |-> "get_speed_code", self |-> project, date |-> d,
                order |-> order, ret |-> get_speed_code(project, d, order)]
    /\ UNCHANGED <<forms, fold>>

NextProjectQueries ==
    \E project \in SetOf(projects), d \in QueryDays :
        \E order \in Orders(project.updates) : GetSpeedCode(project, d, order)

SpecProjectQueries == InitProjectQueries /\ [][NextProjectQueries]_vars

\* the updates of a project that set the speed code
SpeedCodeUpdates(project) ==
    {update \in project.updates : update.speed_code # None}

\* C20: on a date d on which the project is active, get_speed_code(d) is the
\* speed code of the speed-code-setting update of the latest date on or before
\* d (the creation speed code when no later one is dated on or before d); an
\* update dated after d does not affect the answer for d.
C20_SpeedCodeIsLatestOnOrBefore ==
    (call.op = "get_speed_code" /\ Project_is_active(call.self, call.date)) =>
        \A t1 \in SpeedCodeUpdates(call.self) :
            (/\ t1.date <= call.date
             /\ \A t2 \in SpeedCodeUpdates(call.self) \ {t1} :
                    t2.date < t1.date \/ t2.date > call.date)
                => call.ret = t1.speed_code

--------------------------------------------------------------------------
(* spreadsheet/project.py: gen_all_projects over the two PI frames *)

\* project.py:79-87  the rows of the new PI frame
NewPiTuples ==
    [start_timestamp : {Day1, Day1 + 1}, email : {"mango@example.com"},
     last_name : PINames, speed_code : {"AAAA", "BBBB"},
     pi_is_power_user : BOOLEAN, storage : {10}]

\* project.py:145-153  the rows of the PI update frame
PiUpdateTuples ==
    [timestamp : {Day1 + 1, Day1 + 2}, email : {"mango@example.com"},
     last_name : PINames, speed_code : {None, "CCCC"}, new_storage : {NaT, 5},
     account_closed : {None, "True"}]

\* project.py:101-111
NewPiRequest_from_pd_tuple(tuple_) ==
    [kind |-> "NewPiRequest", timestamp |-> tuple_.start_timestamp,
     name |-> tuple_.last_name, email |-> tuple_.email,
     speed_code |-> tuple_.speed_code,
     power_user |-> IF tuple_.pi_is_power_user THEN "True" ELSE "False",
     storage |-> tuple_.storage]

\* project.py:166-181
PiUpdate_from_pd_tuple(tuple_) ==
    [kind |-> "PiUpdate", timestamp |-> tuple_.timestamp, name |-> tuple_.last_name,
     email |-> tuple_.email, speed_code |-> tuple_.speed_code,
     additional_storage |-> tuple_.new_storage,
     account_closed |-> tuple_.account_closed]

\* project.py:133-142
NewPiRequest_gen_user_request(self) ==
    [kind |-> "AccountRequest", timestamp |-> self.timestamp, email |-> self.email,
     pi_name |-> self.name, power_user |-> self.power_user, end_date |-> NaT]

\* project.py:219-228  (called when account_closed is set)
PiUpdate_gen_user_request(self) ==
    [kind |-> "AccountUpdate", timestamp |-> self.timestamp, email |-> self.email,
     pi_name |-> None, power_user |-> None, end_date |-> self.timestamp]

\* min(candidates, key=lambda project: project.open_date): the first project,
\* in list order, of the earliest open date
MinByOpenDate(candidates) ==
    LET i == CHOOSE i \in DOMAIN candidates :
                 \A j \in DOMAIN candidates :
                     \/ candidates[i].open_date < candidates[j].open_date
                     \/ candidates[i].open_date = candidates[j].open_date /\ i <= j
    IN candidates[i]

\* project.py:196-217  the project with one more update, closed if asked
PiUpdate_evolve(self, to_update) ==
    [to_update EXCEPT
        !.updates = @ \cup {ProjectUpdate(self.timestamp, self.speed_code,
                                          self.additional_storage)},
        !.close_date = IF self.account_closed = "True" THEN self.timestamp ELSE @]

\* project.py:183-217  the lists the call can return (list(set(...)) gives the
\* projects in the iteration order of the set), or the exception raised
PiUpdate_handle(self, existing_projects) ==
    LET candidates == SelectSeq(existing_projects,
                                LAMBDA project : project.pi_last_name = self.name)
    IN IF candidates = <<>>
       THEN {[projects |-> existing_projects, raised |-> "InvalidPiUpdateError"]}
       ELSE LET to_update == IF Len(candidates) = 1 THEN candidates[1]
                             ELSE MinByOpenDate(candidates)
                new_projects == (SetOf(existing_projects) \ {to_update})
                                    \cup {PiUpdate_evolve(self, to_update)}
            IN {[projects |-> list, raised |-> None] : list \in Orders(new_projects)}

\* change.handle(projects) for either kind of change
HandleProjectChange(change, existing_projects) ==
    IF change.kind = "NewPiRequest"
    THEN {[projects |-> NewPiRequest_handle(change, existing_projects),
           raised |-> None]}
    ELSE PiUpdate_handle(change, existing_projects)

\* project.py:264-265  the loop over the sorted changes, ended by an exception
RECURSIVE FoldProjectChanges(_, _)
FoldProjectChanges(changes, results) ==
    IF changes = <<>> THEN results
    ELSE FoldProjectChanges(Tail(changes),
                            UNION {IF result.raised # None THEN {result}
                                   ELSE HandleProjectChange(Head(changes),
                                                            result.projects) :
                                   result \in results})

\* project.py:267-269
gen_user_requests(changes) ==
    LET implied == SelectSeq(changes,
                             LAMBDA change : \/ change.kind = "NewPiRequest"
                                             \/ change.account_closed = "True")
    IN [i \in DOMAIN implied |->
           IF implied[i].kind = "NewPiRequest"
           THEN NewPiRequest_gen_user_request(implied[i])
           ELSE PiUpdate_gen_user_request(implied[i])]

\* project.py:231-277  the results the call can give
gen_all_projects(pi_df, pi_update_df, start_date, end_date) ==
    LET new_pis == SelectSeq(pi_df, LAMBDA row : row.start_timestamp <= end_date)
        pi_updates == SelectSeq(pi_update_df, LAMBDA row : row.timestamp <= end_date)
        changes == [i \in DOMAIN new_pis |-> NewPiRequest_from_pd_tuple(new_pis[i])]
                   \o [i \in DOMAIN pi_updates |-> PiUpdate_from_pd_tuple(pi_updates[i])]
    IN {IF result.raised # None
        THEN [projects |-> <<>>, user_changes |-> <<>>, raised |-> result.raised]
        ELSE [projects |-> SelectSeq(result.projects,
                                     LAMBDA project :
                                         \/ project.close_date = NaT
                                         \/ project.close_date >= start_date),
              user_changes |-> gen_user_requests(changes),
              raised |-> None] :
        result \in FoldProjectChanges(SortByTimestamp(changes),
                                      {[projects |-> <<>>, raised |-> None]})}

\* project.py:231-277
GenAllProjects(start_date, end_date) ==
    /\ \E ret \in gen_all_projects(storage_df, storage_update_df,
                                   start_date, end_date) :
           call' = [op |-> "gen_all_projects", start_date |-> start_date,
                    end_date |-> end_date, ret |-> ret]
    /\ UNCHANGED <<forms, fold>>

NextProjects ==
    \/ \E row \in NewPiTuples : SubmitPiForm(row)
    \/ \E row \in PiUpdateTuples : SubmitStorageUpdate(row)
    \/ \E window \in ReconstructWindows : GenAllProjects(window[1], window[2])

SpecProjects == InitUsers /\ [][NextProjects]_vars

\* the rows of the new PI frame that a PI update row of the window matches
\* when its turn comes: those of its PI name dated on or before it
MatchingRows(update) ==
    {i \in DOMAIN storage_df :
        /\ storage_df[i].last_name = update.last_name
        /\ storage_df[i].start_timestamp <= update.timestamp}

\* of the matching rows, those of the earliest open date
BestMatches(update) ==
    {i \in MatchingRows(update) :
        \A j \in MatchingRows(update) :
            storage_df[i].start_timestamp <= storage_df[j].start_timestamp}

\* C17: a PI update that matches no existing project is fatal, and so is one
\* that matches several projects of the same priority (the same earliest open
\* date); an update is applied only when exactly one best match exists.
C17_UpdateAppliedOnlyToUniqueMatch ==
    call.op = "gen_all_projects" =>
        LET folded == {i \in DOMAIN storage_update_df :
                          storage_update_df[i].timestamp <= call.end_date}
        IN /\ (\E i \in folded :
                   Cardinality(BestMatches(storage_update_df[i])) # 1)
                  => call.ret.raised = "InvalidPiUpdateError"
           /\ call.ret.raised = None
                  => \A i \in folded :
                         Cardinality(BestMatches(storage_update_df[i])) = 1

--------------------------------------------------------------------------
(* spreadsheet/record.py: gen_all_project_records over the four frames *)

\* enumerate_all_users with additional_requests (record.py:145-151): the
\* injected changes merged with the filtered rows before the stable sort
enumerate_all_users_additional(user_frame, update_frame, start_date, end_date, additional_requests) ==
    LET user_df == SelectSeq(user_frame, LAMBDA row : row.start_timestamp < end_date)
        update_df == SelectSeq(update_frame,
                               LAMBDA row : /\ row.timestamp < end_date
                                            /\ row.new_end_timestamp # NaT)
        requests == [i \in DOMAIN user_df |-> AccountRequest_from_pd_tuple(user_df[i])]
        updates == [i \in DOMAIN update_df |-> AccountUpdate_from_pd_tuple(update_df[i])]
        changes == SortByTimestamp(requests \o updates \o additional_requests)
    IN {IF result.raised # None THEN Raise(result.raised, {})
        ELSE Returned({user \in result.users :
                          user.end_date = NaT \/ user.end_date > start_date}) :
        result \in FoldChanges(changes, {Returned({})})}

\* record.py:152-163  the update injected for every closed project, in list order
RECURSIVE CloseUsers(_, _)
CloseUsers(closed, results) ==
    IF closed = <<>> THEN results
    ELSE CloseUsers(
             Tail(closed),
             UNION {IF result.raised # None THEN {result}
                    ELSE HandleChange([kind |-> "AccountUpdate",
                                       timestamp |-> Head(closed).close_date,
                                       email |-> Head(closed).email,
                                       pi_name |-> None, power_user |-> None,
                                       end_date |-> Head(closed).close_date],
                                      result.users) :
                    result \in results})

RECURSIVE InsertByOpenDate(_, _)
InsertByOpenDate(project, sorted) ==
    IF sorted = <<>> THEN <<project>>
    ELSE IF Head(sorted).open_date <= project.open_date
         THEN <<Head(sorted)>> \o InsertByOpenDate(project, Tail(sorted))
         ELSE <<project>> \o sorted

\* sorted(projects, key=lambda project: project.open_date)
RECURSIVE SortByOpenDate(_)
SortByOpenDate(list) ==
    IF list = <<>> THEN <<>>
    ELSE InsertByOpenDate(list[Len(list)],
                          SortByOpenDate(SubSeq(list, 1, Len(list) - 1)))

\* every record flagged, whatever the PIs already used
has_power_users_every_record(sorted_projects, i) == TRUE

\* record.py:171, 178  project.pi_last_name not in used_pis
has_power_users(sorted_projects, i) ==
    \A j \in 1..(i - 1) :
        sorted_projects[j].pi_last_name # sorted_projects[i].pi_last_name

\* record.py:168-179
gen_records(all_projects) ==
    LET sorted_projects == SortByOpenDate(all_projects)
    IN [i \in DOMAIN sorted_projects |->
           [project |-> sorted_projects[i],
            has_power_users |-> has_power_users(sorted_projects, i)]]

\* record.py:130-179  the results the call can give: the records (each holding
\* the same users) or the exception raised
gen_all_project_records(user_df, user_update_df, pi_df, pi_update_df, start_date, end_date) ==
    UNION {
        IF generated.raised # None
        THEN {[records |-> <<>>, users |-> {}, raised |-> generated.raised]}
        ELSE UNION {
            {IF closed.raised # None
             THEN [records |-> <<>>, users |-> {}, raised |-> closed.raised]
             ELSE IF checked # None
             THEN [records |-> <<>>, users |-> {}, raised |-> checked]
             ELSE [records |-> gen_records(generated.projects),
                   users |-> closed.users, raised |-> None] :
                 checked \in IF closed.raised # None THEN {None}
                             ELSE check_all_power_users(closed.users,
                                                        generated.projects,
                                                        start_date, end_date)} :
            closed \in CloseUsers(
                SelectSeq(generated.projects,
                          LAMBDA project : project.close_date # NaT),
                enumerate_all_users_additional(user_df, user_update_df,
                                               start_date, end_date,
                                               generated.user_changes))} :
        generated \in gen_all_projects(pi_df, pi_update_df, start_date, end_date)}

\* record.py:99-127  the users the call can return (as a set), each user's
\* updates being iterated in one of their orders
Record_enumerate_power_users(self, all_users, start_date, end_date) ==
    LET days == get_days_in_range(start_date, end_date)
        listed(user, order) ==
            \E d \in days :
                /\ is_active(user, d)
                /\ get_pi_name(user, d, order) = self.project.pi_last_name
                /\ is_power_user(user, d, order) = "True"
    IN IF ~self.has_power_users THEN {{}}
       ELSE {result \in SUBSET all_users :
                \A user \in all_users :
                    \E order \in Orders(user.updates) :
                        (user \in result) <=> listed(user, order)}

PiEmail(name) == IF name = "Mango" THEN "mango@example.com" ELSE "apple@example.com"

RecordNewPiTuples ==
    {[start_timestamp |-> start_timestamp, email |-> PiEmail(last_name),
      last_name |-> last_name, speed_code |-> "AAAA",
      pi_is_power_user |-> pi_is_power_user, storage |-> 10] :
        start_timestamp \in {Day1, Day1 + 1}, last_name \in PINames,
        pi_is_power_user \in BOOLEAN}

RecordPiUpdateTuples ==
    {[timestamp |-> timestamp, email |-> PiEmail(last_name),
      last_name |-> last_name, speed_code |-> None, new_storage |-> NaT,
      account_closed |-> account_closed] :
        timestamp \in {Day1 + 1, Day1 + 2}, last_name \in PINames,
        account_closed \in {None, "True"}}

RecordUserTuples ==
    [start_timestamp : {Day1}, email : {"nectarine@example.com"},
     pi_last_name : PINames, power_user : {TRUE}, end_timestamp : {NaT}]

RecordUserUpdateTuples ==
    [timestamp : {Day1 + 1}, email : {"nectarine@example.com"},
     pi_last_name : {None}, new_power_user : {None},
     new_end_timestamp : {Day1 + 2}]

\* record.py:130-179
GenAllProjectRecords(start_date, end_date) ==
    /\ \E ret \in gen_all_project_records(power_user_df, power_user_update_df,
                                          storage_df, storage_update_df,
                                          start_date, end_date) :
           call' = [op |-> "gen_all_project_records", start_date |-> start_date,
                    end_date |-> end_date, ret |-> ret]
    /\ UNCHANGED <<forms, fold>>

NextProjectRecords ==
    \/ \E row \in RecordNewPiTuples : SubmitPiForm(row)
    \/ \E row \in RecordPiUpdateTuples : SubmitStorageUpdate(row)
    \/ \E row \in RecordUserTuples : SubmitUserForm(row)
    \/ \E row \in RecordUserUpdateTuples : SubmitUserUpdate(row)
    \/ \E window \in ReconstructWindows : GenAllProjectRecords(window[1], window[2])

SpecProjectRecords == InitUsers /\ [][NextProjectRecords]_vars

\* the records the call returned
Records == IF call.op = "gen_all_project_records" THEN call.ret.records ELSE <<>>

\* C19: after the records of a window are built, for every project closed on a
\* date D by a PI update, the user account of the PI's email has end date D and
\* is active on no date after D.
C19_ClosureClosesPiUserAccount ==
    call.op = "gen_all_project_records" /\ call.ret.raised = None =>
        \A i \in DOMAIN Records :
            LET project == Records[i].project
                accounts == LatestTerms(call.ret.users, project.email)
            IN project.close_date # NaT =>
                   /\ accounts # {}
                   /\ \A user \in accounts :
                          /\ user.end_date = project.close_date
                          /\ \A d \in (project.close_date + 1)..(Day1 + 5) :
                                 ~is_active(user, d)

\* the records of one PI name
RecordsOf(name) == {i \in DOMAIN Records : Records[i].project.pi_last_name = name}

\* the users that are, whatever the order their updates are iterated in, active
\* power users of the PI on some day of the window
PowerUsersOf(name) ==
    {user \in call.ret.users :
        \E d \in call.start_date..call.end_date :
            /\ is_active(user, d)
            /\ \A order \in Orders(user.updates) :
                   /\ get_pi_name(user, d, order) = name
                   /\ is_power_user(user, d, order) = "True"}

\* the records that can enumerate the user among their power users
EnumeratedBy(user) ==
    {i \in DOMAIN Records :
        \E result \in Record_enumerate_power_users(Records[i], call.ret.users,
                                                   call.start_date, call.end_date) :
            user \in result}

\* C14: among the records built for one window, for every PI name exactly one
\* record has has_power_users true, and it is a record of the earliest-opened
\* project of that PI; every other record of the PI enumerates no power users,
\* so each power user of the PI is enumerated by exactly one of its records.
C14_OneRecordPerPiHasPowerUsers ==
    call.op = "gen_all_project_records" /\ call.ret.raised = None =>
        \A i \in DOMAIN Records :
            LET name == Records[i].project.pi_last_name
                flagged == {j \in RecordsOf(name) : Records[j].has_power_users}
            IN /\ Cardinality(flagged) = 1
               /\ \A j \in flagged, k \in RecordsOf(name) :
                      Records[j].project.open_date <= Records[k].project.open_date
               /\ \A k \in RecordsOf(name) \ flagged :
                      Record_enumerate_power_users(Records[k], call.ret.users,
                                                   call.start_date, call.end_date)
                          = {{}}
               /\ \A user \in PowerUsersOf(name) :
                      /\ EnumeratedBy(user) \cap RecordsOf(name) = flagged
                      /\ \A j \in flagged :
                             \A result \in Record_enumerate_power_users(
                                               Records[j], call.ret.users,
                                               call.start_date, call.end_date) :
                                 user \in result

\* two projects of one PI opened on different days, the PI having a power user
C14_TwoProjectsOfOnePi ==
    /\ call.op = "gen_all_project_records"
    /\ call.ret.raised = None
    /\ \E i, j \in DOMAIN Records :
           /\ Records[i].project.pi_last_name = Records[j].project.pi_last_name
           /\ Records[i].project.open_date < Records[j].project.open_date
           /\ Records[i].has_power_users
           /\ ~Records[j].has_power_users
           /\ PowerUsersOf(Records[i].project.pi_last_name) # {}

--------------------------------------------------------------------------
(* main.py: process_everything, from the frames to the files it writes *)

RECURSIVE SumStorage(_)
SumStorage(updates) ==
    IF updates = {} THEN 0
    ELSE LET update == CHOOSE update \in updates : TRUE
         IN update.additional_storage + SumStorage(updates \ {update})

\* project.py:61-68  (record.py:50-60 hands the call to the project)
Project_get_storage(project, d) ==
    IF ~Project_is_active(project, d)
    THEN [raised |-> "InactiveProjectError", value |-> 0]
    ELSE [raised |-> None,
          value |-> SumStorage({update \in project.updates :
                                   /\ update.date <= d
                                   /\ update.additional_storage # NaT
                                   /\ update.additional_storage # 0})]

\* policy.py:57-70 on a record (record.py:42-48: the project's open and close date)
Record_is_billable_pi(record, start_date) ==
    LET end_date == get_end_of_period(YearOf(start_date), MonthOf(start_date),
                                      PERIOD_LENGTH)
        cutoff_date == get_end_of_period(YearOf(start_date), MonthOf(start_date),
                                         MIN_BILL_USAGE)
    IN IF record.project.open_date > end_date THEN FALSE
       ELSE IF record.project.close_date = NaT
                 \/ record.project.close_date > cutoff_date THEN TRUE
       ELSE FALSE

\* policy.py:94-109 on a record: the amount, or the exception of a sample
Record_get_quarterly_storage_amount(record, start_date) ==
    LET cutoff_date == get_end_of_period(YearOf(start_date), MonthOf(start_date),
                                         PERIOD_LENGTH - MIN_BILL_USAGE)
        first == Project_get_storage(record.project, cutoff_date)
        second == Project_get_storage(record.project,
                      get_end_of_period(YearOf(start_date), MonthOf(start_date),
                                        MIN_BILL_USAGE))
    IN IF record.project.open_date > cutoff_date THEN [raised |-> None, value |-> 0]
       ELSE IF first.raised # None THEN first
       ELSE IF second.raised # None THEN second
       ELSE [raised |-> None, value |-> Min(first.value, second.value)]

\* billing.py:853-865  the summary: a price for every billable record, or the
\* first exception met while pricing
summarize_all_pi_bills(all_records, start_date) ==
    LET billable == SelectSeq(all_records,
                              LAMBDA record : Record_is_billable_pi(record, start_date))
        amounts == [i \in DOMAIN billable |->
                       Record_get_quarterly_storage_amount(billable[i], start_date)]
    IN IF \E i \in DOMAIN amounts : amounts[i].raised # None
       THEN [raised |-> amounts[CHOOSE i \in DOMAIN amounts :
                                    /\ amounts[i].raised # None
                                    /\ \A j \in 1..(i - 1) : amounts[j].raised = None
                               ].raised,
             summary |-> <<>>]
       ELSE [raised |-> None,
             summary |-> [i \in DOMAIN billable |->
                             [pi |-> billable[i].project.pi_last_name,
                              storage |-> Quarter(amounts[i].value * STORAGE_PRICE)]]]

\* policy.py:273-314  the bill of one record: the exception of its assembly, or
\* None (the storage line shows the amount on the last day of the quarter)
generate_quarterly_bill_tex(record, start_date) ==
    LET end_date == get_end_of_period(YearOf(start_date), MonthOf(start_date),
                                      PERIOD_LENGTH)
        subtotal == Record_get_quarterly_storage_amount(record, start_date)
        amount == Project_get_storage(record.project, end_date)
    IN IF subtotal.raised # None THEN subtotal.raised
       ELSE amount.raised

\* billing.py:896-899
BillFile(record) == "pi-" \o record.project.pi_last_name \o "_bill.tex"

RunQuarterStarts == {date(2020, 11, 1)}

RunNewPiTuples ==
    {[start_timestamp |-> date(2020, 11, 1), email |-> PiEmail(last_name),
      last_name |-> last_name, speed_code |-> "AAAA",
      pi_is_power_user |-> FALSE, storage |-> 10] : last_name \in PINames}

RunPiUpdateTuples ==
    {[timestamp |-> timestamp, email |-> PiEmail(last_name),
      last_name |-> last_name, speed_code |-> None, new_storage |-> NaT,
      account_closed |-> account_closed] :
        timestamp \in {date(2020, 12, 15), date(2021, 1, 15)},
        last_name \in PINames, account_closed \in {None, "True"}}

RunUserTuples ==
    [start_timestamp : {date(2020, 11, 1)}, email : {"nectarine@example.com"},
     pi_last_name : PINames, power_user : {TRUE}, end_timestamp : {NaT}]

\* the frames of at most n rows
Frames(rows, n) == UNION {[1..k -> rows] : k \in 0..n}

\* main.py:62-65  the four frames loaded
InitRun ==
    /\ storage_df \in Frames(RunNewPiTuples, MaxPiRows)
    /\ storage_update_df \in Frames(RunPiUpdateTuples, MaxStorageUpdates)
    /\ power_user_df \in Frames(RunUserTuples, MaxUserRows)
    /\ power_user_update_df = <<>>
    /\ call = NoCall
    /\ FoldIdle

Step(quarter_start, step) ==
    [op |-> "process_everything", quarter_start |-> quarter_start, step |-> step]

\* main.py:67-79
RunGenAllProjectRecords(quarter_start) ==
    /\ call.op = "none"
    /\ \E ret \in gen_all_project_records(
                      power_user_df, power_user_update_df, storage_df,
                      storage_update_df, quarter_start,
                      get_end_of_period(YearOf(quarter_start),
                                        MonthOf(quarter_start), PERIOD_LENGTH)) :
           /\ records' = ret.records
           /\ users' = ret.users
           /\ outcome' = ret.raised
    /\ call' = Step(quarter_start, "gen_all_project_records")
    /\ UNCHANGED <<forms, projects, clock, handled, out_dir>>

\* main.py:80-84  the summary file written once every price is computed
RunSummarizeAllPiBills ==
    /\ call.op = "process_everything"
    /\ call.step = "gen_all_project_records"
    /\ outcome = None
    /\ LET ret == summarize_all_pi_bills(records, call.quarter_start)
       IN /\ outcome' = ret.raised
          /\ out_dir' = IF ret.raised = None THEN out_dir \cup {"summary.xlsx"}
                        ELSE out_dir
    /\ call' = Step(call.quarter_start, "summarize_all_pi_bills")
    /\ UNCHANGED <<forms, users, projects, clock, handled, records>>

\* main.py:85, billing.py:895-905, 937-947  the bill of the next record: nothing
\* for a record that is not billable, else the bill assembled and written
RunGeneratePiBill ==
    /\ call.op = "process_everything"
    /\ call.step \in {"summarize_all_pi_bills", "generate_all_pi_bills"}
    /\ outcome = None
    /\ handled < Len(records)
    /\ LET record == records[handled + 1]
           raised == IF Record_is_billable_pi(record, call.quarter_start)
                     THEN generate_quarterly_bill_tex(record, call.quarter_start)
                     ELSE None
       IN /\ outcome' = raised
          /\ out_dir' = IF /\ Record_is_billable_pi(record, call.quarter_start)
                           /\ raised = None
                        THEN out_dir \cup {BillFile(record)}
                        ELSE out_dir
    /\ handled' = handled + 1
    /\ call' = Step(call.quarter_start, "generate_all_pi_bills")
    /\ UNCHANGED <<forms, users, projects, clock, records>>

NextRun ==
    \/ \E quarter_start \in RunQuarterStarts : RunGenAllProjectRecords(quarter_start)
    \/ RunSummarizeAllPiBills
    \/ RunGeneratePiBill

SpecRun == InitRun /\ [][NextRun]_vars

\* the run has gone through every record without an exception
RunComplete ==
    /\ call.op = "process_everything"
    /\ call.step \in {"summarize_all_pi_bills", "generate_all_pi_bills"}
    /\ outcome = None
    /\ handled = Len(records)

--------------------------------------------------------------------------
(* Properties of AccountUpdate.reinstate_user *)

\* reinstate_user was called on a term that had expired before the event's date,
\* and built a new term
Reinstated ==
    /\ call.op = "reinstate_user"
    /\ ~is_active(call.user, call.self.timestamp)
    /\ call.ret.raised = None

\* C21: the term built by a reinstating update has the event's end date: it is
\* open-ended when the event carries no new end date, and never keeps the end
\* date of the expired term.
C21_ReinstatedTermHasEventEndDate ==
    Reinstated => call.ret.user.end_date = call.self.end_date

--------------------------------------------------------------------------
(* Properties of the entities the handlers construct *)

\* the terms reinstate_user builds from an expired term, over the orders in which
\* its updates may be iterated (none when reinstate_user raises)
ReinstatedTerms(self, to_update) ==
    {reinstate_user(self, to_update, order).user :
         order \in {o \in Orders(to_update.updates) :
                       reinstate_user(self, to_update, o).raised = None}}

\* the users the handled event would construct from the working set it was given
\* (none when the handler raises before constructing anything)
Constructed ==
    LET self == call.self
        latest == LatestTerms(call.existing_users, self.email)
    IN IF call.op = "AccountRequest.handle"
       THEN IF latest = {} THEN {create_user(self)}
            ELSE {AccountRequest_update_user(self, to_update) : to_update \in latest}
       ELSE IF call.op = "AccountUpdate.handle"
       THEN UNION {IF is_active(to_update, self.timestamp)
                   THEN {AccountUpdate_update_user(self, to_update)}
                   ELSE ReinstatedTerms(self, to_update) : to_update \in latest}
       ELSE {}

LatestOnOrBefore(updates, d) ==
    {update \in updates :
        /\ update.date <= d
        /\ \A other \in updates : other.date <= d => other.date <= update.date}

\* the PI names / power-user flags a term had as of a date
PiNamesAsOf(user, d) ==
    {update.pi_name :
         update \in LatestOnOrBefore({u \in user.updates : u.pi_name # None}, d)}

PowerUserAsOf(user, d) ==
    {update.power_user :
         update \in LatestOnOrBefore({u \in user.updates : u.power_user # None}, d)}

\* term is a reinstatement of the expired term by the event self
InheritsFrom(term, self, expired) ==
    /\ term.email = expired.email
    /\ term.start_date = self.timestamp
    /\ \E pi_name \in (IF self.pi_name # None THEN {self.pi_name}
                       ELSE PiNamesAsOf(expired, expired.end_date)) :
           \E power_user \in (IF self.power_user # None THEN {self.power_user}
                              ELSE PowerUserAsOf(expired, expired.end_date)) :
               term.updates = {Update(self.timestamp, power_user, pi_name)}

\* C23: a reinstated term starts on the event's date, and its PI name and
\* power-user flag are the event's where the event gives them and otherwise those
\* of the latest update of the expired term dated on or before its old end date;
\* this holds for the term reinstate_user builds and for the term handle stores.
C23_ReinstatedTermInherits ==
    /\ Reinstated => InheritsFrom(call.ret.user, call.self, call.user)
    /\ (/\ UpdateHandled
        /\ outcome = None
        /\ \E user \in LatestTerms(call.existing_users, call.self.email) :
               ~is_active(user, call.self.timestamp)) =>
           \E term \in users \ call.existing_users :
               \E expired \in LatestTerms(call.existing_users, call.self.email) :
                   InheritsFrom(term, call.self, expired)

\* a term was reinstated by an event that sets no power-user flag, and the expired
\* term has a later setting after its end date than on it
C23_InheritedAsOfOldEndDate ==
    /\ Reinstated
    /\ call.self.power_user = None
    /\ \E late \in call.user.updates :
           /\ late.date > call.user.end_date
           /\ late.power_user # None
           /\ late.power_user \notin PowerUserAsOf(call.user, call.user.end_date)

--------------------------------------------------------------------------
(* Properties of AccountRequest.handle *)

\* a creation event was handled for an email the working set already had
SeenEmailRequested ==
    /\ call.op = "AccountRequest.handle"
    /\ TermsOf(call.existing_users, call.self.email) # {}

\* C24: a creation event for an email already in the working set adds no entity:
\* the number of entities of that email is unchanged, the entity of the latest
\* start_date among them receives an update dated at the event carrying the
\* event's PI and power-user flag, and every other entity is unchanged.
C24_SeenEmailUpdatesLatestTerm ==
    SeenEmailRequested =>
        /\ Cardinality(TermsOf(users, call.self.email))
               = Cardinality(TermsOf(call.existing_users, call.self.email))
        /\ outcome = None =>
               \E to_update \in LatestTerms(call.existing_users, call.self.email) :
                   \E updated \in users :
                       /\ updated.email = to_update.email
                       /\ updated.start_date = to_update.start_date
                       /\ updated.updates = to_update.updates
                              \cup {Update(call.self.timestamp, call.self.power_user,
                                           call.self.pi_name)}
                       /\ users \ {updated} = call.existing_users \ {to_update}

\* a creation event was handled for an email that had two terms
C24_RequestForEmailOfTwoTerms ==
    /\ SeenEmailRequested
    /\ outcome = None
    /\ Cardinality(TermsOf(call.existing_users, call.self.email)) = 2

--------------------------------------------------------------------------
(* Properties of the filter that ends the reconstructions *)

\* the entities left after the fold, before any is dropped: the reconstructions
\* with a window start that precedes every date
FoldedProjectLists(end_date) ==
    {full.projects : full \in {ret \in gen_all_projects(storage_df, storage_update_df,
                                                        0, end_date) :
                                  ret.raised = None}}

FoldedUserSets(end_date) ==
    {full.users : full \in {ret \in enumerate_all_users(power_user_df,
                                                        power_user_update_df,
                                                        0, end_date) :
                               ret.raised = None}}

\* C25: after folding, the reconstruction returns exactly the entities (users, and
\* likewise projects) whose end / close date is undefined or strictly after the
\* window's start_date; an entity that ends on or before start_date is dropped,
\* one that ends exactly on start_date included.
C25_ReturnsEntitiesEndingAfterStart ==
    /\ (call.op = "gen_all_projects" /\ call.ret.raised = None) =>
           \E folded \in FoldedProjectLists(call.end_date) :
               call.ret.projects
                   = SelectSeq(folded,
                               LAMBDA project : \/ project.close_date = NaT
                                                \/ project.close_date > call.start_date)
    /\ (call.op = "enumerate_all_users" /\ call.ret.raised = None) =>
           \E folded \in FoldedUserSets(call.end_date) :
               call.ret.users = {user \in folded : \/ user.end_date = NaT
                                                   \/ user.end_date > call.start_date}

--------------------------------------------------------------------------
(* The constructors of UpdateUser and Project, and the events that build   *)
(* the working sets of users and projects                                  *)

\* project.py:25-33
Project_both_defined(value) ==
    IF ~(\E update \in value : update.additional_storage # NaT)
    THEN "InvalidProjectError"
    ELSE IF ~(\E update \in value : update.speed_code # None)
    THEN "InvalidProjectError"
    ELSE None

\* the update sets a constructor can be handed
EntityUserUpdates ==
    SUBSET {Update(Day1, power_user, pi_name) :
                power_user \in {None, "True"}, pi_name \in {None, "Mango"}}

EntityProjectUpdates ==
    SUBSET {ProjectUpdate(Day1, speed_code, additional_storage) :
                speed_code \in {None, "AAAA"}, additional_storage \in {NaT, 10}}

\* user.py:36-40  UpdateUser(...): the dates are valid, the update set is any
EntityUsers ==
    [email : {"nectarine@example.com"}, start_date : {Day1},
     end_date : {NaT, Day1 + 1}, updates : EntityUserUpdates]

\* project.py:36-48  Project(...)
EntityProjects ==
    [open_date : {Day1}, email : {"pi@example.com"}, pi_last_name : {"Mango"},
     close_date : {NaT}, updates : EntityProjectUpdates]

\* the events of the two folds
EntityAccountRequests ==
    [timestamp : {Day1}, email : {"nectarine@example.com"}, pi_name : {"Mango"},
     power_user : {"True", "False"}, end_date : {NaT, Day1 + 1}]

EntityAccountUpdates ==
    [timestamp : {Day1 + 1, Day1 + 2}, email : {"nectarine@example.com"},
     pi_name : {None, "Apple"}, power_user : {None}, end_date : {NaT, Day1 + 3}]

EntityNewPiRequests ==
    [timestamp : {Day1}, name : {"Mango"}, email : {"pi@example.com"},
     speed_code : {"AAAA"}, power_user : {"False"}, storage : {10}]

EntityPiUpdates ==
    [kind : {"PiUpdate"}, timestamp : {Day1 + 1}, name : {"Mango", "Apple"},
     email : {"pi@example.com"}, speed_code : {None, "BBBB"},
     additional_storage : {NaT, 5}, account_closed : {None, "True"}]

\* user.py:36-40  the constructor of UpdateUser and what it raises
ConstructUser(user) ==
    /\ outcome = None
    /\ call' = [op |-> "UpdateUser", entity |-> user, raised |-> validate(user)]
    /\ UNCHANGED <<forms, fold>>

\* project.py:36-48  the constructor of Project and what it raises
ConstructProject(project) ==
    /\ outcome = None
    /\ call' = [op |-> "Project", entity |-> project,
                raised |-> Project_both_defined(project.updates)]
    /\ UNCHANGED <<forms, fold>>

\* no PI update has been folded yet (the new PI requests of the day before come
\* first in the sorted changes)
NoPiUpdateYet ==
    \A project \in SetOf(projects) :
        project.close_date = NaT /\ Cardinality(project.updates) = 1

\* project.py:183-217
HandlePiUpdate(self) ==
    /\ outcome = None
    /\ handled < MaxChanges
    /\ \E result \in PiUpdate_handle(self, projects) :
           /\ projects' = IF result.raised = None THEN result.projects ELSE projects
           /\ outcome' = result.raised
    /\ handled' = handled + 1
    /\ call' = [op |-> "PiUpdate.handle", self |-> self, existing_projects |-> projects]
    /\ UNCHANGED <<forms, users, clock, records, out_dir>>

NextEntities ==
    \/ \E user \in EntityUsers : ConstructUser(user)
    \/ \E project \in EntityProjects : ConstructProject(project)
    \/ \E self \in EntityAccountRequests : HandleAccountRequest(self)
    \/ \E self \in EntityAccountUpdates : HandleAccountUpdate(self)
    \/ \E self \in EntityNewPiRequests : NoPiUpdateYet /\ HandleNewPiRequest(self)
    \/ \E self \in EntityPiUpdates : HandlePiUpdate(self)

SpecEntities == InitUsers /\ [][NextEntities]_vars

SetsPowerUser(updates) == \E update \in updates : update.power_user # None
SetsPiName(updates) == \E update \in updates : update.pi_name # None
SetsStorage(updates) == \E update \in updates : update.additional_storage # NaT
SetsSpeedCode(updates) == \E update \in updates : update.speed_code # None

\* C26: the construction of a user whose update set has no update setting
\* power_user or none setting pi_name fails with InvalidUserError, that of a
\* project whose update set has no storage update or no speed-code update fails
\* with InvalidProjectError, and so every user and every project of the working
\* sets has at least one dated assignment of each of these attributes.
C26_IncompleteEntityRejected ==
    /\ (/\ call.op = "UpdateUser"
        /\ ~(SetsPowerUser(call.entity.updates) /\ SetsPiName(call.entity.updates)))
           => call.raised = "InvalidUserError"
    /\ (/\ call.op = "Project"
        /\ ~(SetsStorage(call.entity.updates) /\ SetsSpeedCode(call.entity.updates)))
           => call.raised = "InvalidProjectError"
    /\ \A user \in users : SetsPowerUser(user.updates) /\ SetsPiName(user.updates)
    /\ \A project \in SetOf(projects) :
           SetsStorage(project.updates) /\ SetsSpeedCode(project.updates)

\* a user whose updates set the power-user flag but no PI name was constructed
C26_UserWithoutPiNameConstructed ==
    /\ call.op = "UpdateUser"
    /\ SetsPowerUser(call.entity.updates)
    /\ ~SetsPiName(call.entity.updates)
    /\ call.raised = "InvalidUserError"

--------------------------------------------------------------------------
(* Properties of AccountUpdate.handle for an active user *)

\* C27: an update event carrying a new end date E, handled for a user who is
\* active on the event's date, sets that user's end date to E, so that the user
\* is inactive on every date after E, and leaves the user's start date unchanged.
C27_UpdateSetsEndDateOfActiveUser ==
    (/\ UpdateHandled
     /\ outcome = None
     /\ call.self.end_date # NaT) =>
        \A to_update \in LatestTerms(call.existing_users, call.self.email) :
            is_active(to_update, call.self.timestamp) =>
                \E user \in TermsOf(users, call.self.email) :
                    /\ user.start_date = to_update.start_date
                    /\ user.end_date = call.self.end_date
                    /\ \A d \in (call.self.end_date + 1)..(Day1 + 5) :
                           ~is_active(user, d)

--------------------------------------------------------------------------
(* Properties of the point-in-time lookups of billing *)

\* the records of the run that are billable for its quarter
BillableRecords ==
    IF call.op = "process_everything"
    THEN {records[i] : i \in {j \in DOMAIN records :
                                 Record_is_billable_pi(records[j], call.quarter_start)}}
    ELSE {}

\* C28: for every record that is billable for the quarter, no lookup billing
\* performs for that quarter raises the inactive-date error: neither the storage
\* amounts at the month-1 and month-2 cutoffs (the quarterly storage amount) nor
\* the storage amount at the quarter's end date (the storage line of the bill).
C28_BillableLookupsWithinActiveDates ==
    \A record \in BillableRecords :
        /\ Record_get_quarterly_storage_amount(record, call.quarter_start).raised
               # "InactiveProjectError"
        /\ generate_quarterly_bill_tex(record, call.quarter_start)
               # "InactiveProjectError"

--------------------------------------------------------------------------
(* gen_all_project_records over frames in which the PI has a user account  *)
(* of its own with an end date and a later update                          *)

ClosureNewPiTuples ==
    {[start_timestamp |-> Day1, email |-> PiEmail("Apple"), last_name |-> "Apple",
      speed_code |-> "AAAA", pi_is_power_user |-> FALSE, storage |-> 10]}

ClosurePiUpdateTuples ==
    {[timestamp |-> timestamp, email |-> PiEmail("Apple"), last_name |-> "Apple",
      speed_code |-> None, new_storage |-> NaT, account_closed |-> account_closed] :
        timestamp \in {Day1 + 1, Day1 + 2}, account_closed \in {None, "True"}}

ClosureUserTuples ==
    [start_timestamp : {Day1, Day1 + 1},
     email : {PiEmail("Apple"), "nectarine@example.com"},
     pi_last_name : {"Apple"}, power_user : {TRUE}, end_timestamp : {NaT, Day1 + 2}]

ClosureUserUpdateTuples ==
    [timestamp : {Day1 + 3}, email : {PiEmail("Apple"), "nectarine@example.com"},
     pi_last_name : {None}, new_power_user : {None},
     new_end_timestamp : {Day1 + 4}]

ClosureWindows == {<<Day1, Day1 + 2>>, <<Day1, Day1 + 5>>}

NextClosures ==
    \/ \E row \in ClosureNewPiTuples : SubmitPiForm(row)
    \/ \E row \in ClosurePiUpdateTuples : SubmitStorageUpdate(row)
    \/ \E row \in ClosureUserTuples : SubmitUserForm(row)
    \/ \E row \in ClosureUserUpdateTuples : SubmitUserUpdate(row)
    \/ \E window \in ClosureWindows : GenAllProjectRecords(window[1], window[2])

SpecClosures == InitUsers /\ [][NextClosures]_vars

\* C29: in the users the reconstruction returns, the closure updates of
\* record.py:152-163 included, no two users that share an email are active on
\* the same date: the terms of one identity never overlap.
C29_TermsOfOneEmailNeverOverlap ==
    (call.op = "gen_all_project_records" /\ call.ret.raised = None) =>
        \A a \in call.ret.users : \A b \in call.ret.users \ {a} :
            a.email = b.email =>
                ~(\E d \in Day1..(Day1 + 5) : is_active(a, d) /\ is_active(b, d))

--------------------------------------------------------------------------
(* Properties of the point-in-time lookups of users *)

\* the days the users of the model can be active on
LookupDays == Day1..(Day1 + 5)

\* on every date the user is active, an update setting power_user and one
\* setting pi_name are dated on or before it, and both lookups return a value
LookupsDefined(user) ==
    \A d \in LookupDays :
        is_active(user, d) =>
            /\ \E update \in user.updates :
                   update.power_user # None /\ update.date <= d
            /\ \E update \in user.updates :
                   update.pi_name # None /\ update.date <= d
            /\ \A order \in Orders(user.updates) :
                   /\ ~Raised(is_power_user(user, d, order))
                   /\ ~Raised(get_pi_name(user, d, order))

\* C30: for every user produced by the creation, update and reinstatement events
\* and every date on which the user is active, at least one update setting
\* power_user and one setting pi_name is dated on or before that date, so
\* is_power_user and get_pi_name return a value and never fail on an empty
\* selection (the lookups reinstate_user makes on the expired term included).
C30_LookupsDefinedOnActiveDates ==
    /\ \A user \in users : LookupsDefined(user)
    /\ Reinstated => LookupsDefined(call.ret.user)
    /\ outcome # "ValueError"
    /\ call.op = "reinstate_user" => call.ret.raised # "ValueError"

\* the working set holds a reinstated term and an expired term of several updates
C30_ReinstatedAndUpdatedTerms ==
    \E old \in users : \E new \in users :
        /\ old.email = new.email
        /\ old.start_date < new.start_date
        /\ Cardinality(old.updates) >= 2
        /\ \E d \in LookupDays : is_active(new, d)

====
